---------------------------- MODULE Spec2Model ----------------------------
(***************************************************************************)
(* A model of templates.template.Templar (src/src/templates/template/      *)
(* __init__.py): the template() entry point, its result cache, the         *)
(* variable environment, _do_template, _clean_data and the helpers they    *)
(* call.                                                                   *)
(*                                                                         *)
(* Text is a sequence of one-character strings.  A Python value is a       *)
(* record with a type tag t and one field per payload kind, so that all    *)
(* values have the same shape:                                             *)
(*   t = "str"   s: the characters, unsafe: carries __UNSAFE__             *)
(*   t = "int"   n        t = "bool"  b        t = "none"                  *)
(*   t = "list" / "tuple" / "set"   items: the elements                    *)
(*   t = "dict"  items: the <<key, value>> pairs in insertion order        *)
(*   t = "proxy" items: <<obj>>, a non-text object carrying __UNSAFE__     *)
(***************************************************************************)
EXTENDS Integers, Sequences, FiniteSets, TLC

VARIABLES
    available_variables,  \* Templar._available_variables
    cached_result,        \* Templar._cached_result: key -> value
    fail_on_filter_errors,\* Templar._fail_on_filter_errors ("unset": no such attribute)
    call,                 \* the last call made on the Templar and its arguments
    outcome,              \* what that call returned (st = "ok") or raised
    stale_result          \* history: the entries of _cached_result that the last
                          \* set_available_variables discarded

vars == <<available_variables, cached_result, fail_on_filter_errors, call, outcome,
          stale_result>>

-----------------------------------------------------------------------------
(* Bounds of the model *)

\* a call of template() is made only when it leaves at most this many entries
\* in the cache
MaxCache == 2
\* longest string _clean_data is applied to in SpecClean
MaxLen == 7
\* nesting depth of template() -> _do_template -> variable lookup -> template()
MaxDepth == 4

-----------------------------------------------------------------------------
(* Text helpers *)

NL == "\n"
BS == "\\"
TAB == "\t"

Letters == {"a", "b", "c", "d", "e", "f", "g", "h", "i", "j", "k", "l", "m",
            "n", "o", "p", "q", "r", "s", "t", "u", "v", "w", "x", "y", "z",
            "T", "F", "N", "_"}
Digits == {"0", "1", "2", "3", "4", "5", "6", "7", "8", "9"}
\* \w of the re module
WordChars == Letters \cup Digits
\* \s of the re module
SpaceChars == {" ", NL, TAB}

IsPrefixAt(s, p, i) ==
    /\ i >= 1
    /\ i + Len(p) - 1 <= Len(s)
    /\ \A k \in 1..Len(p) : s[i + k - 1] = p[k]

StartsWith(s, p) == IsPrefixAt(s, p, 1)

EndsWith(s, p) == Len(p) <= Len(s) /\ IsPrefixAt(s, p, Len(s) - Len(p) + 1)

\* str.find: the first index (from 1) at or after i where p occurs, 0 when none
FirstOf(hits) == IF hits = {} THEN 0 ELSE CHOOSE k \in hits : \A h \in hits : k <= h
FindFrom(s, p, i) == FirstOf({k \in i..(Len(s) - Len(p) + 1) : IsPrefixAt(s, p, k)})

Contains(s, p) == FindFrom(s, p, 1) > 0

\* s[a:] and s[:b] with 1-based a and inclusive b, clipped like a Python slice
From(s, a) == IF a > Len(s) THEN <<>> ELSE SubSeq(s, IF a < 1 THEN 1 ELSE a, Len(s))
Upto(s, b) == IF b < 1 THEN <<>> ELSE SubSeq(s, 1, IF b > Len(s) THEN Len(s) ELSE b)

RECURSIVE Repeat(_, _)
Repeat(c, n) == IF n <= 0 THEN <<>> ELSE <<c>> \o Repeat(c, n - 1)

RECURSIVE Concat(_)
Concat(ss) == IF ss = <<>> THEN <<>> ELSE Head(ss) \o Concat(Tail(ss))

RECURSIVE JoinWith(_, _)
JoinWith(sep, ss) ==
    IF ss = <<>> THEN <<>>
    ELSE IF Len(ss) = 1 THEN ss[1]
    ELSE ss[1] \o sep \o JoinWith(sep, Tail(ss))

\* str.split(sep) for a one-character separator
RECURSIVE SplitOn(_, _)
SplitOn(s, c) ==
    LET i == FindFrom(s, <<c>>, 1)
    IN IF i = 0 THEN <<s>> ELSE <<Upto(s, i - 1)>> \o SplitOn(From(s, i + 1), c)

\* str.strip()
RECURSIVE LStrip(_)
LStrip(s) == IF s # <<>> /\ Head(s) \in SpaceChars THEN LStrip(Tail(s)) ELSE s
RECURSIVE RStrip(_)
RStrip(s) ==
    IF s # <<>> /\ s[Len(s)] \in SpaceChars THEN RStrip(Upto(s, Len(s) - 1)) ELSE s
Strip(s) == RStrip(LStrip(s))

AllIn(s, S) == \A k \in 1..Len(s) : s[k] \in S

-----------------------------------------------------------------------------
(* Python values *)

Val(t, s, n, b, items, unsafe) ==
    [t |-> t, s |-> s, n |-> n, b |-> b, items |-> items, unsafe |-> unsafe]

StrV(s) == Val("str", s, 0, FALSE, <<>>, FALSE)
UnsafeText(s) == Val("str", s, 0, FALSE, <<>>, TRUE)
IntV(n) == Val("int", <<>>, n, FALSE, <<>>, FALSE)
BoolV(b) == Val("bool", <<>>, 0, b, <<>>, FALSE)
NoneV == Val("none", <<>>, 0, FALSE, <<>>, FALSE)
ListV(items) == Val("list", <<>>, 0, FALSE, items, FALSE)
TupleV(items) == Val("tuple", <<>>, 0, FALSE, items, FALSE)
SetV(items) == Val("set", <<>>, 0, FALSE, items, FALSE)
DictV(pairs) == Val("dict", <<>>, 0, FALSE, pairs, FALSE)
Proxy(obj) == Val("proxy", <<>>, 0, FALSE, <<obj>>, TRUE)
\* the function the module builtins binds to name
BuiltinV(name) == Val("builtin", name, 0, FALSE, <<>>, FALSE)

\* isinstance(v, string_types)
IsString(v) == v.t = "str"
\* hasattr(v, '__UNSAFE__')
HasUnsafe(v) == v.unsafe
\* isinstance(v, NON_TEMPLATED_TYPES): bool or Number
IsNonTemplated(v) == v.t \in {"bool", "int"}
\* bool(v)
Truthy(v) ==
    CASE v.t = "bool" -> v.b
      [] v.t = "int" -> v.n # 0
      [] v.t = "none" -> FALSE
      [] v.t = "str" -> v.s # <<>>
      [] OTHER -> v.items # <<>>

\* key in d, d[key] for a dict value
HasKey(d, k) == \E i \in 1..Len(d.items) : d.items[i][1] = k
GetKey(d, k) == d.items[CHOOSE i \in 1..Len(d.items) : d.items[i][1] = k][2]

DigitSeq == <<"0", "1", "2", "3", "4", "5", "6", "7", "8", "9">>
RECURSIVE NatText(_)
NatText(n) == IF n < 10 THEN <<DigitSeq[n + 1]>>
              ELSE NatText(n \div 10) \o <<DigitSeq[(n % 10) + 1]>>
IntText(n) == IF n < 0 THEN <<"-">> \o NatText(-n) ELSE NatText(n)

Chars_True == <<"T", "r", "u", "e">>
Chars_False == <<"F", "a", "l", "s", "e">>
Chars_None == <<"N", "o", "n", "e">>

\* the escapes repr() writes inside a quoted string
RECURSIVE ReprEscape(_, _)
ReprEscape(s, q) ==
    IF s = <<>> THEN <<>>
    ELSE (CASE Head(s) = BS -> <<BS, BS>>
            [] Head(s) = NL -> <<BS, "n">>
            [] Head(s) = TAB -> <<BS, "t">>
            [] Head(s) = q -> <<BS, q>>
            [] OTHER -> <<Head(s)>>) \o ReprEscape(Tail(s), q)

\* repr() of a str: double quotes when the text holds ' and no "
ReprStr(s) ==
    LET q == IF Contains(s, <<"'">>) /\ ~Contains(s, <<"\"">>) THEN "\"" ELSE "'"
    IN <<q>> \o ReprEscape(s, q) \o <<q>>

\* repr(v); text_type(v) differs from it only for a str at the top
RECURSIVE Repr(_)
RECURSIVE ReprItems(_)
RECURSIVE ReprPairs(_)
Repr(v) ==
    CASE v.t = "str" -> ReprStr(v.s)
      [] v.t = "int" -> IntText(v.n)
      [] v.t = "bool" -> IF v.b THEN Chars_True ELSE Chars_False
      [] v.t = "none" -> Chars_None
      [] v.t = "list" -> <<"[">> \o ReprItems(v.items) \o <<"]">>
      [] v.t = "tuple" ->
            <<"(">> \o ReprItems(v.items)
                    \o (IF Len(v.items) = 1 THEN <<",">> ELSE <<>>) \o <<")">>
      [] v.t = "set" ->
            IF v.items = <<>> THEN <<"s", "e", "t", "(", ")">>
            ELSE <<"{">> \o ReprItems(v.items) \o <<"}">>
      [] v.t = "dict" -> <<"{">> \o ReprPairs(v.items) \o <<"}">>
      [] OTHER -> Repr(v.items[1])
ReprItems(items) ==
    IF items = <<>> THEN <<>>
    ELSE IF Len(items) = 1 THEN Repr(items[1])
    ELSE Repr(items[1]) \o <<",", " ">> \o ReprItems(Tail(items))
ReprPairs(pairs) ==
    IF pairs = <<>> THEN <<>>
    ELSE LET one == Repr(pairs[1][1]) \o <<":", " ">> \o Repr(pairs[1][2])
         IN IF Len(pairs) = 1 THEN one
            ELSE one \o <<",", " ">> \o ReprPairs(Tail(pairs))

\* text_type(v)
Text(v) == IF v.t = "str" THEN v.s ELSE Repr(v)

-----------------------------------------------------------------------------
(* Module constants and the delimiters of the jinja2 environment *)

JINJA2_OVERRIDE == <<"#", "j", "i", "n", "j", "a", "2", ":">>
STRING_TYPE_FILTERS ==
    { <<"s", "t", "r", "i", "n", "g">>, <<"t", "o", "_", "j", "s", "o", "n">>,
      <<"t", "o", "_", "n", "i", "c", "e", "_", "j", "s", "o", "n">>,
      <<"t", "o", "_", "y", "a", "m", "l">>, <<"p", "p", "r", "e", "t", "t", "y">>,
      <<"j", "s", "o", "n">> }
DEFAULT_NULL_REPRESENTATION == NoneV

\* the defaults of jinja2.Environment, which Templar.__init__ does not change
variable_start == <<"{", "{">>
variable_end == <<"}", "}">>
block_start == <<"{", "%">>
block_end == <<"%", "}">>
comment_start == <<"{", "#">>
comment_end == <<"#", "}">>

-----------------------------------------------------------------------------
(* _count_newlines_from_end *)

\* the while loop: in_str[j] with Python's negative indexing, IndexError
\* outside -len..len-1, where the function returns i
RECURSIVE CountNewlinesLoop(_, _)
CountNewlinesLoop(in_str, j) ==
    LET i == Len(in_str)
    IN IF j >= i \/ j < -i THEN i
       ELSE IF in_str[(IF j < 0 THEN j + i ELSE j) + 1] = NL
            THEN CountNewlinesLoop(in_str, j - 1)
            ELSE i - 1 - j

CountNewlinesFromEnd(in_str) == CountNewlinesLoop(in_str, Len(in_str) - 1)

-----------------------------------------------------------------------------
(* SINGLE_VAR, _contains_vars, _no_type_regex, _convert_bare_variable *)

\* where "$" of a pattern without re.MULTILINE matches: at the end of the
\* text and just before a newline that ends it
DollarEnds(s) == {Len(s)} \cup (IF EndsWith(s, <<NL>>) THEN {Len(s) - 1} ELSE {})

\* ^{{\s*(\w*)\s*}}$ matched against the first e characters of s
SingleVarAt(s, e) ==
    /\ e >= 4
    /\ StartsWith(s, variable_start)
    /\ IsPrefixAt(s, variable_end, e - 1)
    /\ AllIn(Strip(SubSeq(s, 3, e - 2)), WordChars)

\* SINGLE_VAR.match(variable) is not None
SingleVarMatches(s) == \E e \in DollarEnds(s) : SingleVarAt(s, e)

\* only_one.group(1)
SingleVarName(s) ==
    LET e == CHOOSE x \in DollarEnds(s) : SingleVarAt(s, x)
    IN Strip(SubSeq(s, 3, e - 2))

ContainsVars(data) ==
    \E marker \in {block_start, variable_start, comment_start} : Contains(data, marker)

\* .*\|\s*(?:string|to_json|...)\s*(?:}})?$ matched with re.match: "." stops
\* at a newline
NoTypeAt(s, e) ==
    \E i \in 1..e :
        /\ s[i] = "|"
        /\ ~Contains(SubSeq(s, 1, i - 1), <<NL>>)
        /\ LET rest == SubSeq(s, i + 1, e)
           IN \/ Strip(rest) \in STRING_TYPE_FILTERS
              \/ /\ EndsWith(rest, variable_end)
                 /\ Strip(Upto(rest, Len(rest) - 2)) \in STRING_TYPE_FILTERS

NoTypeMatches(s) == \E e \in DollarEnds(s) : NoTypeAt(s, e)

\* variable.split("|")[0].split(".")[0].split("[")[0]
FirstPart(s) == SplitOn(SplitOn(SplitOn(s, "|")[1], ".")[1], "[")[1]

ConvertBareVariable(variable, env) ==
    IF /\ IsString(variable)
       /\ (Contains(variable.s, <<"|">>) \/ HasKey(env, StrV(FirstPart(variable.s))))
       /\ ~Contains(variable.s, variable_start)
    THEN StrV(variable_start \o variable.s \o variable_end)
    ELSE variable

-----------------------------------------------------------------------------
(* _clean_data *)

\* _clean_regex.finditer from position i: the matches, left to right and not
\* overlapping, as <<start, token>>
RECURSIVE CleanMatches(_, _)
CleanMatches(s, i) ==
    IF i + 1 > Len(s) THEN <<>>
    ELSE LET tok == SubSeq(s, i, i + 1)
         IN IF tok \in {variable_start, block_start, block_end, variable_end}
            THEN << <<i, tok>> >> \o CleanMatches(s, i + 2)
            ELSE CleanMatches(s, i + 1)

\* data.seek(pos); data.write(text)
WriteAt(data, pos, text) ==
    [k \in 1..Len(data) |->
        IF k >= pos /\ k < pos + Len(text) THEN text[k - pos + 1] ELSE data[k]]

\* the for loop with one list of openings for both kinds of tag
RECURSIVE CleanLoop_OneStack(_, _, _, _)
CleanLoop_OneStack(ms, data, print_openings, block_openings) ==
    IF ms = <<>> THEN data
    ELSE IF ms[1][2][1] = variable_start[1]
    THEN CleanLoop_OneStack(Tail(ms), data, Append(print_openings, ms[1][1]),
                            block_openings)
    ELSE IF print_openings # <<>>
    THEN CleanLoop_OneStack(Tail(ms),
             WriteAt(WriteAt(data, print_openings[Len(print_openings)], comment_start),
                     ms[1][1], comment_end),
             SubSeq(print_openings, 1, Len(print_openings) - 1), block_openings)
    ELSE CleanLoop_OneStack(Tail(ms), data, print_openings, block_openings)

\* the body of the for loop, over the matches still to visit
RECURSIVE CleanLoop(_, _, _, _)
CleanLoop(ms, data, print_openings, block_openings) ==
    IF ms = <<>> THEN data
    ELSE LET token == ms[1][2]
             token_start == ms[1][1]
             rest == Tail(ms)
         IN IF token[1] = variable_start[1]
            THEN IF token = block_start
                 THEN CleanLoop(rest, data, print_openings,
                                Append(block_openings, token_start))
                 ELSE CleanLoop(rest, data, Append(print_openings, token_start),
                                block_openings)
            ELSE IF token = block_end /\ block_openings # <<>>
                 THEN CleanLoop(rest,
                          WriteAt(WriteAt(data, block_openings[Len(block_openings)],
                                          comment_start),
                                  token_start, comment_end),
                          print_openings,
                          SubSeq(block_openings, 1, Len(block_openings) - 1))
            ELSE IF token = variable_end /\ print_openings # <<>>
                 THEN CleanLoop(rest,
                          WriteAt(WriteAt(data, print_openings[Len(print_openings)],
                                          comment_start),
                                  token_start, comment_end),
                          SubSeq(print_openings, 1, Len(print_openings) - 1),
                          block_openings)
            ELSE CleanLoop(rest, data, print_openings, block_openings)

CleanData(orig_data) ==
    IF ~IsString(orig_data) \/ HasUnsafe(orig_data) THEN orig_data
    ELSE StrV(CleanLoop(CleanMatches(orig_data.s, 1), orig_data.s, <<>>, <<>>))

-----------------------------------------------------------------------------
(* The jinja2 lexer, as far as the payloads of this model use it.            *)
(* A token is [k |-> kind, v |-> its text]; the texts of the tokens of a     *)
(* source, joined, give the source back.  A source the lexer rejects ends    *)
(* in a token of kind "error".                                               *)

Tok(k, v) == [k |-> k, v |-> v]

OperatorChars == {"+", "-", "/", "*", "%", "~", "[", "]", "(", ")", "{", "}",
                  "=", ">", "<", ".", ":", "|", ",", ";"}
Closer(c) == CASE c = "}" -> "{" [] c = "]" -> "[" [] c = ")" -> "("

\* Lexer.tokeniter: '\n'.join(source.splitlines()) drops one newline at the
\* end of the source (keep_trailing_newline is not set)
DropOneNewline(s) == IF EndsWith(s, <<NL>>) THEN Upto(s, Len(s) - 1) ELSE s

\* the end of a run of characters of S starting at i
RECURSIVE RunEnd(_, _, _)
RunEnd(s, i, S) == IF i <= Len(s) /\ s[i] \in S THEN RunEnd(s, i + 1, S) ELSE i

\* string_re: the index of the quote closing the literal opened at i, 0 if none
RECURSIVE StringEnd(_, _, _)
StringEnd(s, i, q) ==
    IF i > Len(s) THEN 0
    ELSE IF s[i] = BS THEN (IF i + 1 > Len(s) THEN 0 ELSE StringEnd(s, i + 2, q))
    ELSE IF s[i] = q THEN i
    ELSE StringEnd(s, i + 1, q)

\* the index of the first delimiter opening a tag at or after i, 0 if none
NextOpen(s, i, bs) ==
    FirstOf({k \in i..Len(s) : \/ IsPrefixAt(s, variable_start, k)
                               \/ IsPrefixAt(s, bs, k)
                               \/ IsPrefixAt(s, comment_start, k)})

DataTok(data) == IF data = <<>> THEN <<>> ELSE <<Tok("data", data)>>

RECURSIVE LexRoot(_, _, _)
RECURSIVE LexOpen(_, _, _, _)
RECURSIVE LexComment(_, _, _, _)
RECURSIVE LexTag(_, _, _, _, _)
RECURSIVE LexRun(_, _, _, _, _, _, _)

\* the state "root": data up to the next opening delimiter
LexRoot(s, i, bs) == IF i > Len(s) THEN <<>> ELSE LexOpen(s, i, bs, NextOpen(s, i, bs))

\* the opening delimiter at k, after the data from i
LexOpen(s, i, bs, k) ==
    IF k = 0 THEN DataTok(From(s, i))
    ELSE DataTok(SubSeq(s, i, k - 1))
         \o (IF IsPrefixAt(s, comment_start, k)
             THEN LexComment(s, k, bs, FindFrom(s, comment_end, k + 2))
             ELSE IF IsPrefixAt(s, bs, k)
             THEN <<Tok("block_begin", bs)>> \o LexTag(s, k + Len(bs), bs, "block", <<>>)
             ELSE <<Tok("variable_begin", variable_start)>>
                      \o LexTag(s, k + 2, bs, "variable", <<>>))

\* the comment opened at k, closed at e
LexComment(s, k, bs, e) ==
    IF e = 0 THEN <<Tok("error", From(s, k))>>
    ELSE <<Tok("comment", SubSeq(s, k, e + 1))>> \o LexRoot(s, e + 2, bs)

\* the token of kind k from i up to e, then the rest of the tag
LexRun(s, i, e, k, bs, kind, balancing) ==
    <<Tok(k, SubSeq(s, i, e - 1))>> \o LexTag(s, e, bs, kind, balancing)

\* the states "variable_begin" and "block_begin": the closing delimiter when
\* no bracket is open, else whitespace, integer, name, string, operator
LexTag(s, i, bs, kind, balancing) ==
    IF i > Len(s) THEN <<Tok("error", <<>>)>>
    ELSE IF kind = "variable" /\ balancing = <<>> /\ IsPrefixAt(s, variable_end, i)
    THEN <<Tok("variable_end", variable_end)>> \o LexRoot(s, i + 2, bs)
    ELSE IF kind = "block" /\ balancing = <<>> /\ IsPrefixAt(s, block_end, i)
    THEN \* trim_blocks=True: the newline after a block tag belongs to it
         IF i + 2 <= Len(s) /\ s[i + 2] = NL
         THEN <<Tok("block_end", block_end \o <<NL>>)>> \o LexRoot(s, i + 3, bs)
         ELSE <<Tok("block_end", block_end)>> \o LexRoot(s, i + 2, bs)
    ELSE IF s[i] \in SpaceChars
    THEN LexRun(s, i, RunEnd(s, i, SpaceChars), "whitespace", bs, kind, balancing)
    ELSE IF s[i] \in Digits
    THEN LexRun(s, i, RunEnd(s, i, Digits), "integer", bs, kind, balancing)
    ELSE IF s[i] \in Letters
    THEN LexRun(s, i, RunEnd(s, i, WordChars), "name", bs, kind, balancing)
    ELSE IF s[i] \in {"'", "\""}
    THEN IF StringEnd(s, i + 1, s[i]) = 0 THEN <<Tok("error", From(s, i))>>
         ELSE LexRun(s, i, StringEnd(s, i + 1, s[i]) + 1, "string", bs, kind, balancing)
    ELSE IF s[i] \in {"{", "[", "("}
    THEN LexRun(s, i, i + 1, "operator", bs, kind, Append(balancing, s[i]))
    ELSE IF s[i] \in {"}", "]", ")"}
    THEN IF balancing # <<>> /\ balancing[Len(balancing)] = Closer(s[i])
         THEN LexRun(s, i, i + 1, "operator", bs, kind,
                     Upto(balancing, Len(balancing) - 1))
         ELSE <<Tok("error", From(s, i))>>
    ELSE IF s[i] \in OperatorChars
    THEN LexRun(s, i, i + 1, "operator", bs, kind, balancing)
    ELSE <<Tok("error", From(s, i))>>

\* environment.lex(source) of an environment whose block_start_string is bs
Lex(source, bs) == LexRoot(DropOneNewline(source), 1, bs)

LexFails(toks) == \E k \in 1..Len(toks) : toks[k].k = "error"

-----------------------------------------------------------------------------
(* _escape_backslashes *)

RECURSIVE DoubleBackslashes(_)
DoubleBackslashes(s) ==
    IF s = <<>> THEN <<>>
    ELSE (IF Head(s) = BS THEN <<BS, BS>> ELSE <<Head(s)>>) \o DoubleBackslashes(Tail(s))

\* the for loop over the tokens: new_data, joined
RECURSIVE EscapeLoop(_, _)
EscapeLoop(toks, in_var) ==
    IF toks = <<>> THEN <<>>
    ELSE IF Head(toks).k = "variable_begin"
    THEN Head(toks).v \o EscapeLoop(Tail(toks), TRUE)
    ELSE IF Head(toks).k = "variable_end"
    THEN Head(toks).v \o EscapeLoop(Tail(toks), FALSE)
    ELSE IF in_var /\ Head(toks).k = "string"
    THEN DoubleBackslashes(Head(toks).v) \o EscapeLoop(Tail(toks), in_var)
    ELSE Head(toks).v \o EscapeLoop(Tail(toks), in_var)

EscapeTokens(data, toks) ==
    IF LexFails(toks) THEN [ok |-> FALSE, data |-> data]
    ELSE [ok |-> TRUE, data |-> EscapeLoop(toks, FALSE)]

\* [ok, data]: ok is FALSE when jinja_env.lex raises TemplateSyntaxError
EscapeBackslashes(data, bs) ==
    IF Contains(data, <<BS>>) /\ Contains(data, variable_start)
    THEN EscapeTokens(data, Lex(data, bs))
    ELSE [ok |-> TRUE, data |-> data]

-----------------------------------------------------------------------------
(* safe_eval: ast.parse(expr, mode='eval'), CleansingNodeVisitor, eval.      *)
(* The parser covers literal displays: integers, quoted strings, names,      *)
(* lists, dicts and sets, and the calls f(a, b) and attribute accesses a.b   *)
(* made of them.  A result is [st, node, pos] with st "ok",                  *)
(* "syntax" (SyntaxError) or "beyond" (Python syntax this parser does not    *)
(* cover).                                                                   *)

Node(k, s, n, kids) == [k |-> k, s |-> s, n |-> n, kids |-> kids]
NoNode == Node("none", <<>>, 0, <<>>)
PRes(st, node, pos) == [st |-> st, node |-> node, pos |-> pos]

\* the value of the escapes of a quoted literal (Python's and jinja2's)
RECURSIVE Unescape(_)
Unescape(s) ==
    IF s = <<>> THEN <<>>
    ELSE IF Head(s) = BS /\ Len(s) >= 2
    THEN (CASE s[2] = "n" -> <<NL>>
            [] s[2] = "t" -> <<TAB>>
            [] s[2] \in {BS, "'", "\""} -> <<s[2]>>
            [] OTHER -> <<BS, s[2]>>) \o Unescape(From(s, 3))
    ELSE <<Head(s)>> \o Unescape(Tail(s))

SkipWs(s, i) == RunEnd(s, i, SpaceChars)

\* int(digits), for the integers of the model
NatOf(digits) == CHOOSE n \in 0..99 : NatText(n) = digits

\* what follows a complete expression: a character that can continue it is
\* outside the parser's coverage, any other is a SyntaxError
AfterExpr(c) == IF c \in OperatorChars \cup Letters THEN "beyond" ELSE "syntax"

\* the integer literal from i up to e
ParseNum(s, i, e) ==
    IF e - i > 2 \/ (e - i = 2 /\ s[i] = "0") \/ (e <= Len(s) /\ s[e] \in Letters \cup {"."})
    THEN PRes("beyond", NoNode, e)
    ELSE PRes("ok", Node("Num", <<>>, NatOf(SubSeq(s, i, e - 1)), <<>>), e)

\* the quoted literal opened at i, closed at e
ParseStr(s, i, e) ==
    IF e = 0 THEN PRes("syntax", NoNode, i)
    ELSE IF Contains(SubSeq(s, i, e), <<NL>>) THEN PRes("syntax", NoNode, i)
    ELSE PRes("ok", Node("Str", Unescape(SubSeq(s, i + 1, e - 1)), 0, <<>>), e + 1)

\* the identifier id, ending before e
ParseId(id, e) ==
    IF id \in {Chars_True, Chars_False, Chars_None}
    THEN PRes("ok", Node("NameConstant", id, 0, <<>>), e)
    ELSE PRes("ok", Node("Name", id, 0, <<>>), e)

\* the display of kind k whose elements r holds
Display(k, r) == IF r.st = "ok" THEN PRes("ok", Node(k, <<>>, 0, r.node), r.pos) ELSE r

RECURSIVE ParseAtom(_, _)
RECURSIVE ParsePrimary(_, _)
RECURSIVE ParsePostfix(_, _)
RECURSIVE ParseCall(_, _, _)
RECURSIVE ParseBrace(_, _)
RECURSIVE ParseBraceFirst(_, _, _)
RECURSIVE ParseBraceKind(_, _, _)
RECURSIVE ParseItems(_, _, _, _)
RECURSIVE ItemsAt(_, _, _, _)
RECURSIVE ItemsAfter(_, _, _, _)
RECURSIVE ItemsSep(_, _, _, _)
RECURSIVE ParsePairs(_, _, _)
RECURSIVE PairsAt(_, _, _)
RECURSIVE PairsKey(_, _, _)
RECURSIVE PairsColon(_, _, _, _)
RECURSIVE PairsVal(_, _, _, _)
RECURSIVE PairsSep(_, _, _)

\* a primary and the calls and attribute accesses that follow it
ParseAtom(s, i) == ParsePostfix(s, ParsePrimary(s, i))

\* after the primary a: "(" arguments ")" makes a Call of it, "." name an
\* Attribute
ParsePostfix(s, a) ==
    IF a.st # "ok" \/ a.pos > Len(s) THEN a
    ELSE IF s[a.pos] = "(" THEN ParseCall(s, a.node, ParseItems(s, a.pos + 1, ")", <<>>))
    ELSE IF s[a.pos] = "." /\ a.node.k # "Num"
    THEN IF a.pos + 1 <= Len(s) /\ s[a.pos + 1] \in Letters
         THEN ParsePostfix(s, PRes("ok",
                  Node("Attribute",
                       SubSeq(s, a.pos + 1, RunEnd(s, a.pos + 1, WordChars) - 1), 0,
                       <<a.node>>),
                  RunEnd(s, a.pos + 1, WordChars)))
         ELSE PRes("syntax", NoNode, a.pos + 1)
    ELSE a

\* the Call of func with the arguments args holds
ParseCall(s, func, args) ==
    IF args.st # "ok" THEN PRes(args.st, NoNode, args.pos)
    ELSE ParsePostfix(s, PRes("ok", Node("Call", <<>>, 0, <<func>> \o args.node), args.pos))

ParsePrimary(s, i) ==
    IF i > Len(s) THEN PRes("syntax", NoNode, i)
    ELSE IF s[i] \in Digits THEN ParseNum(s, i, RunEnd(s, i, Digits))
    ELSE IF s[i] \in {"'", "\""} THEN ParseStr(s, i, StringEnd(s, i + 1, s[i]))
    ELSE IF s[i] \in Letters
    THEN ParseId(SubSeq(s, i, RunEnd(s, i, WordChars) - 1), RunEnd(s, i, WordChars))
    ELSE IF s[i] = "[" THEN Display("List", ParseItems(s, i + 1, "]", <<>>))
    ELSE IF s[i] = "{" THEN ParseBrace(s, SkipWs(s, i + 1))
    ELSE IF s[i] \in OperatorChars THEN PRes("beyond", NoNode, i)
    ELSE PRes("syntax", NoNode, i)

\* after "{": an empty dict, or a first element that tells a dict from a set
ParseBrace(s, j) ==
    IF j <= Len(s) /\ s[j] = "}" THEN PRes("ok", Node("Dict", <<>>, 0, <<>>), j + 1)
    ELSE ParseBraceFirst(s, j, ParseAtom(s, j))

ParseBraceFirst(s, j, first) ==
    IF first.st # "ok" THEN first ELSE ParseBraceKind(s, j, SkipWs(s, first.pos))

ParseBraceKind(s, j, k) ==
    IF k <= Len(s) /\ s[k] = ":" THEN Display("Dict", ParsePairs(s, j, <<>>))
    ELSE Display("Set", ParseItems(s, j, "}", <<>>))

\* the elements of a display up to its closing bracket; node is their sequence
ParseItems(s, i, close, acc) == ItemsAt(s, SkipWs(s, i), close, acc)

ItemsAt(s, j, close, acc) ==
    IF j > Len(s) THEN PRes("syntax", acc, j)
    ELSE IF s[j] = close /\ (acc # <<>> \/ close \in {"]", ")"}) THEN PRes("ok", acc, j + 1)
    ELSE ItemsAfter(s, close, acc, ParseAtom(s, j))

ItemsAfter(s, close, acc, a) ==
    IF a.st # "ok" THEN a ELSE ItemsSep(s, close, Append(acc, a.node), SkipWs(s, a.pos))

ItemsSep(s, close, acc, k) ==
    IF k > Len(s) THEN PRes("syntax", acc, k)
    ELSE IF s[k] = "," THEN ParseItems(s, k + 1, close, acc)
    ELSE IF s[k] = close THEN PRes("ok", acc, k + 1)
    ELSE PRes(AfterExpr(s[k]), acc, k)

\* the key: value pairs of a dict display; node is the sequence of <<key, value>>
ParsePairs(s, i, acc) == PairsAt(s, SkipWs(s, i), acc)

PairsAt(s, j, acc) ==
    IF j > Len(s) THEN PRes("syntax", acc, j)
    ELSE IF s[j] = "}" /\ acc # <<>> THEN PRes("ok", acc, j + 1)
    ELSE PairsKey(s, acc, ParseAtom(s, j))

PairsKey(s, acc, key) ==
    IF key.st # "ok" THEN key ELSE PairsColon(s, acc, key.node, SkipWs(s, key.pos))

PairsColon(s, acc, keynode, c) ==
    IF c > Len(s) THEN PRes("syntax", acc, c)
    ELSE IF s[c] # ":" THEN PRes(AfterExpr(s[c]), acc, c)
    ELSE PairsVal(s, acc, keynode, ParseAtom(s, SkipWs(s, c + 1)))

PairsVal(s, acc, keynode, val) ==
    IF val.st # "ok" THEN val
    ELSE PairsSep(s, Append(acc, <<keynode, val.node>>), SkipWs(s, val.pos))

PairsSep(s, acc, k) ==
    IF k > Len(s) THEN PRes("syntax", acc, k)
    ELSE IF s[k] = "," THEN ParsePairs(s, k + 1, acc)
    ELSE IF s[k] = "}" THEN PRes("ok", acc, k + 1)
    ELSE PRes(AfterExpr(s[k]), acc, k)

\* the end of the text after the expression a
AstParseEnd(expr, a, k) ==
    IF a.st # "ok" \/ k > Len(expr) THEN a ELSE PRes(AfterExpr(expr[k]), NoNode, k)

AstParseRest(expr, a) == AstParseEnd(expr, a, IF a.st = "ok" THEN SkipWs(expr, a.pos) ELSE 0)

\* ast.parse(expr, mode='eval'): one expression, then only whitespace
AstParse(expr) ==
    IF expr # <<>> /\ expr[1] \in SpaceChars THEN PRes("beyond", NoNode, 1)
    ELSE AstParseRest(expr, ParseAtom(expr, 1))

SAFE_NODES == {"Add", "BinOp", "Call", "Compare", "Dict", "Div", "Expression",
               "List", "Load", "Mult", "Num", "Name", "Str", "Sub", "Tuple",
               "UnaryOp", "Set", "NameConstant"}
JSON_TYPES == DictV(<< <<StrV(<<"f", "a", "l", "s", "e">>), BoolV(FALSE)>>,
                      <<StrV(<<"n", "u", "l", "l">>), NoneV>>,
                      <<StrV(<<"t", "r", "u", "e">>), BoolV(TRUE)>> >>)
CALL_WHITELIST == {}

\* names that are attributes of the module builtins
Builtins == {<<"a", "b", "s">>, <<"l", "e", "n">>, <<"o", "p", "e", "n">>,
             <<"_", "_", "i", "m", "p", "o", "r", "t", "_", "_">>}

\* ast.iter_child_nodes
ChildNodes(node) ==
    IF node.k = "Dict"
    THEN [k \in 1..(2 * Len(node.kids)) |-> node.kids[(k + 1) \div 2][2 - (k % 2)]]
    ELSE node.kids

\* CleansingNodeVisitor.generic_visit: TRUE when it raises nothing
RECURSIVE GenericVisit(_, _)
GenericVisit(node, inside_call) ==
    /\ node.k \in SAFE_NODES
    /\ ~(node.k = "Name" /\ inside_call /\ node.s \in Builtins
                         /\ node.s \notin CALL_WHITELIST)
    /\ \A k \in 1..Len(ChildNodes(node)) :
          GenericVisit(ChildNodes(node)[k], inside_call \/ node.k = "Call")

Hashable(v) == v.t \notin {"list", "dict", "set"}

\* d[k] = v on the pairs of a dict that is being built
PutPair(pairs, k, v) ==
    IF \E i \in 1..Len(pairs) : pairs[i][1] = k
    THEN [i \in 1..Len(pairs) |-> IF pairs[i][1] = k THEN <<k, v>> ELSE pairs[i]]
    ELSE Append(pairs, <<k, v>>)

AddItem(items, v) ==
    IF \E i \in 1..Len(items) : items[i] = v THEN items ELSE Append(items, v)

RECURSIVE DedupItems(_)
DedupItems(items) ==
    IF items = <<>> THEN <<>>
    ELSE AddItem(DedupItems(Upto(items, Len(items) - 1)), items[Len(items)])

RECURSIVE PairsOf(_)
PairsOf(kvs) ==
    IF kvs = <<>> THEN <<>>
    ELSE PutPair(PairsOf(Upto(kvs, Len(kvs) - 1)), kvs[Len(kvs)][1], kvs[Len(kvs)][2])

EvalOk(val) == [ok |-> TRUE, val |-> val]
EvalFails == [ok |-> FALSE, val |-> NoneV]

\* a list or set display of the evaluated elements rs
EvalDisplay(k, rs) ==
    IF \E i \in 1..Len(rs) : ~rs[i].ok THEN EvalFails
    ELSE IF k = "List" THEN EvalOk(ListV([i \in 1..Len(rs) |-> rs[i].val]))
    ELSE IF \E i \in 1..Len(rs) : ~Hashable(rs[i].val) THEN EvalFails
    ELSE EvalOk(SetV(DedupItems([i \in 1..Len(rs) |-> rs[i].val])))

\* a dict display of the evaluated keys ks and values vs
EvalDict(ks, vs) ==
    IF \E i \in 1..Len(ks) : ~ks[i].ok \/ ~vs[i].ok \/ ~Hashable(ks[i].val) THEN EvalFails
    ELSE EvalOk(DictV(PairsOf([i \in 1..Len(ks) |-> <<ks[i].val, vs[i].val>>])))

\* a call of the evaluated function rs[1]: what is not a function raises
\* TypeError, a function of builtins runs
EvalCall(rs) ==
    IF \E i \in 1..Len(rs) : ~rs[i].ok THEN EvalFails
    ELSE IF rs[1].val.t # "builtin" THEN EvalFails
    ELSE EvalOk(Val("returned", rs[1].val.s, 0, FALSE, <<>>, FALSE))

\* eval(compiled, JSON_TYPES, dict(locals)): [ok, val]; ok is FALSE when the
\* evaluation raises (NameError, TypeError)
RECURSIVE EvalNode(_, _)
EvalNode(node, locals) ==
    CASE node.k = "Num" -> EvalOk(IntV(node.n))
      [] node.k = "Str" -> EvalOk(StrV(node.s))
      [] node.k = "NameConstant" ->
            EvalOk(IF node.s = Chars_True THEN BoolV(TRUE)
                   ELSE IF node.s = Chars_False THEN BoolV(FALSE) ELSE NoneV)
      [] node.k = "Name" ->
            IF HasKey(locals, StrV(node.s)) THEN EvalOk(GetKey(locals, StrV(node.s)))
            ELSE IF HasKey(JSON_TYPES, StrV(node.s))
            THEN EvalOk(GetKey(JSON_TYPES, StrV(node.s)))
            \* eval puts __builtins__ into the globals it is given
            ELSE IF node.s \in Builtins THEN EvalOk(BuiltinV(node.s))
            ELSE EvalFails
      [] node.k \in {"List", "Set"} ->
            EvalDisplay(node.k, [i \in 1..Len(node.kids) |-> EvalNode(node.kids[i], locals)])
      [] node.k = "Dict" ->
            EvalDict([i \in 1..Len(node.kids) |-> EvalNode(node.kids[i][1], locals)],
                     [i \in 1..Len(node.kids) |-> EvalNode(node.kids[i][2], locals)])
      [] node.k = "Call" ->
            EvalCall([i \in 1..Len(node.kids) |-> EvalNode(node.kids[i], locals)])
      [] OTHER -> EvalFails

\* what safe_eval gives back
\* caught is the error the try block raised ("None": none), evaluated is
\* whether eval(compiled, ...) was reached
Evaled(val, err, include_exceptions, caught, evaluated) ==
    [val |-> val, err |-> err, pair |-> include_exceptions, caught |-> caught,
     evaluated |-> evaluated]

SafeEvalValue(expr, r, include_exceptions) ==
    IF r.ok THEN Evaled(r.val, "None", include_exceptions, "None", TRUE)
    ELSE Evaled(expr, "Exception", include_exceptions, "Exception", TRUE)

\* safe_eval that evaluates the tree before the visitor has seen it
SafeEvalParsed_EvalFirst(expr, locals, include_exceptions, parsed) ==
    IF parsed.st = "beyond"
    THEN Evaled(expr, "beyond", include_exceptions, "beyond", FALSE)
    ELSE IF parsed.st = "syntax"
    THEN Evaled(expr, "None", include_exceptions, "SyntaxError", FALSE)
    ELSE IF ~GenericVisit(parsed.node, FALSE)
    THEN Evaled(expr, "Exception", include_exceptions, "Exception", TRUE)
    ELSE SafeEvalValue(expr, EvalNode(parsed.node, locals), include_exceptions)

SafeEvalParsed(expr, locals, include_exceptions, parsed) ==
    IF parsed.st = "beyond"
    THEN Evaled(expr, "beyond", include_exceptions, "beyond", FALSE)
    ELSE IF parsed.st = "syntax"
    THEN Evaled(expr, "None", include_exceptions, "SyntaxError", FALSE)
    ELSE IF ~GenericVisit(parsed.node, FALSE)
    THEN Evaled(expr, "Exception", include_exceptions, "Exception", FALSE)
    ELSE SafeEvalValue(expr, EvalNode(parsed.node, locals), include_exceptions)

\* safe_eval: [val, err, pair]; pair: the caller gets the tuple (val, err).
\* err is "None", the name of the error, or "beyond" for a text outside the
\* parser's coverage
SafeEval(expr, locals, include_exceptions) ==
    IF ~IsString(expr) THEN Evaled(expr, "None", include_exceptions, "None", FALSE)
    ELSE SafeEvalParsed(expr, locals, include_exceptions, AstParse(expr.s))

-----------------------------------------------------------------------------
(* Taint: templates.vars.unsafe_proxy and TemplatesContext._is_unsafe *)

\* wrap_var: every string of the value, at any depth, becomes unsafe text
RECURSIVE WrapVar(_)
WrapVar(v) ==
    CASE v.t = "str" -> UnsafeText(v.s)
      [] v.t = "dict" ->
            DictV([k \in 1..Len(v.items) |->
                     <<WrapVar(v.items[k][1]),
                       IF v.items[k][2] = NoneV THEN NoneV ELSE WrapVar(v.items[k][2])>>])
      [] v.t = "list" -> ListV([k \in 1..Len(v.items) |-> WrapVar(v.items[k])])
      [] OTHER -> v

\* TemplatesContext._is_unsafe
RECURSIVE IsUnsafe(_)
IsUnsafe(val) ==
    CASE val.t = "dict" ->
            \E k \in 1..Len(val.items) :
                IsUnsafe(val.items[k][1]) \/ IsUnsafe(val.items[k][2])
      [] val.t = "list" -> \E k \in 1..Len(val.items) : IsUnsafe(val.items[k])
      [] val.t = "str" -> HasUnsafe(val)
      [] OTHER -> FALSE

-----------------------------------------------------------------------------
(* The jinja2 compiler, as far as the payloads of this model use it: a       *)
(* template is data, comments and {{ expression }} tags, an expression is    *)
(* terms joined by "+", a term is a name, a quoted string or an integer      *)
(* followed by any number of "| filter".                                     *)

\* filters of the environment: jinja2's own "string", and a filter of
\* templates.filters the caller has installed that fails on its input
Filter_string == <<"s", "t", "r", "i", "n", "g">>
FailingFilter == <<"z", "z">>
KnownFilters == {Filter_string, FailingFilter}

\* names jinja2 reads as constants
JinjaConstants == {<<"t", "r", "u", "e">>, Chars_True, <<"f", "a", "l", "s", "e">>,
                   Chars_False, <<"n", "o", "n", "e">>, Chars_None}

IsOp(tk, c) == tk.k = "operator" /\ tk.v = <<c>>

\* the tokens of one tag, whitespace dropped, from token i up to its end
RECURSIVE TagTokens(_, _, _)
TagTokens(toks, i, endkind) ==
    IF i > Len(toks) \/ toks[i].k = endkind THEN <<>>
    ELSE (IF toks[i].k = "whitespace" THEN <<>> ELSE <<toks[i]>>)
             \o TagTokens(toks, i + 1, endkind)

RECURSIVE TagEndIndex(_, _, _)
TagEndIndex(toks, i, endkind) ==
    IF i > Len(toks) \/ toks[i].k = endkind THEN i ELSE TagEndIndex(toks, i + 1, endkind)

\* the syntax of one term starting at token i: the index after it, 0 for a
\* syntax error, -1 for an expression outside this model's grammar
RECURSIVE FiltersEnd(_, _)
FiltersEnd(e, i) ==
    IF i <= Len(e) /\ IsOp(e[i], "|")
    THEN IF i + 1 > Len(e) \/ e[i + 1].k # "name" THEN 0
         ELSE IF e[i + 1].v \notin KnownFilters THEN 0
         ELSE FiltersEnd(e, i + 2)
    ELSE i

TermEnd(e, i) ==
    IF i > Len(e) THEN 0
    ELSE IF e[i].k \in {"name", "string", "integer"} THEN FiltersEnd(e, i + 1)
    ELSE -1

\* "ok", "syntax" (TemplateSyntaxError) or "beyond"
RECURSIVE ExprSyntax(_, _)
RECURSIVE ExprSyntaxAfter(_, _)
ExprSyntax(e, i) == ExprSyntaxAfter(e, TermEnd(e, i))

\* the expression after a term that ends before token j
ExprSyntaxAfter(e, j) ==
    IF j = 0 THEN "syntax"
    ELSE IF j = -1 THEN "beyond"
    ELSE IF j > Len(e) THEN "ok"
    ELSE IF IsOp(e[j], "+") THEN ExprSyntax(e, j + 1)
    ELSE "beyond"

\* Environment.from_string on the tokens: the nodes of the template, each
\* [k |-> "data", v |-> text] or [k |-> "expr", v |-> tokens]; a node of kind
\* "syntax" or "beyond" when the template does not compile
RECURSIVE CompileTokens(_, _)
RECURSIVE CompileTag(_, _, _)
RECURSIVE CompileExpr(_, _, _, _)
CompileTokens(toks, i) ==
    IF i > Len(toks) THEN <<>>
    ELSE IF toks[i].k = "data"
    THEN <<[k |-> "data", v |-> toks[i].v]>> \o CompileTokens(toks, i + 1)
    ELSE IF toks[i].k = "comment" THEN CompileTokens(toks, i + 1)
    ELSE IF toks[i].k = "variable_begin"
    THEN CompileTag(toks, i, TagTokens(toks, i + 1, "variable_end"))
    \* a block tag: no payload of this model spells the name of a jinja2
    \* statement, and any other tag is a syntax error
    ELSE <<[k |-> "syntax", v |-> <<>>]>>

\* the tag opened at token i, whose expression is e
CompileTag(toks, i, e) ==
    CompileExpr(toks, i, e, IF e = <<>> THEN "syntax" ELSE ExprSyntax(e, 1))

CompileExpr(toks, i, e, st) ==
    IF st = "ok"
    THEN <<[k |-> "expr", v |-> e]>>
             \o CompileTokens(toks, TagEndIndex(toks, i + 1, "variable_end") + 1)
    ELSE <<[k |-> st, v |-> <<>>]>>

CompileLexed(toks) ==
    IF LexFails(toks) THEN <<[k |-> "syntax", v |-> <<>>]>> ELSE CompileTokens(toks, 1)

Compile(data, cfg) == CompileLexed(Lex(data, cfg.bs))

CompileStatus(nodes) ==
    IF \E k \in 1..Len(nodes) : nodes[k].k = "beyond" THEN "beyond"
    ELSE IF \E k \in 1..Len(nodes) : nodes[k].k = "syntax" THEN "syntax"
    ELSE "ok"

-----------------------------------------------------------------------------
(* Templar.template and Templar._do_template.                                *)
(* A result is [st, val, cache]: st is "ok" (val is returned) or the name    *)
(* of the error raised, cache is _cached_result afterwards.  st "beyond"     *)
(* marks an input outside the grammars above.                                *)

Res(st, val, cache) == [st |-> st, val |-> val, cache |-> cache]
Undefined == Val("undefined", <<>>, 0, FALSE, <<>>, FALSE)

\* the keyword arguments of template() and their defaults
DefaultOptions ==
    [convert_bare |-> FALSE, preserve_trailing_newlines |-> TRUE,
     escape_backslashes |-> TRUE, fail_on_undefined |-> NoneV, overrides |-> NoneV,
     convert_data |-> TRUE, static_vars |-> {StrV(<<>>)}, cache |-> TRUE]

\* Templar._fail_on_undefined_errors, set once in __init__
fail_on_undefined_errors == BoolV(TRUE)

\* if fail_on_undefined is None: fail_on_undefined = self._fail_on_undefined_errors
FailOnUndefined(fail_on_undefined) ==
    IF fail_on_undefined = NoneV THEN fail_on_undefined_errors ELSE fail_on_undefined

BoolText(b) == IF b THEN Chars_True ELSE Chars_False

\* sha1_hash: the two digests stand for the texts they are taken of
CacheKey(variable, preserve_trailing_newlines, escape_backslashes, fail_on_undefined, overrides) ==
    <<Text(variable),
      BoolText(preserve_trailing_newlines) \o BoolText(escape_backslashes)
          \o Text(fail_on_undefined) \o Text(overrides)>>

\* the environment a render runs in: block_start_string of the overlay
EnvOverlay(overrides) == [bs |-> IF overrides = NoneV THEN block_start ELSE Text(overrides)]

Key_block_start_string ==
    <<"b", "l", "o", "c", "k", "_", "s", "t", "a", "r", "t", "_", "s", "t", "r", "i", "n", "g">>
Key_trim_blocks == <<"t", "r", "i", "m", "_", "b", "l", "o", "c", "k", "s">>

\* ast.literal_eval(text): [st, val]
RECURSIVE IsLiteral(_)
IsLiteral(node) ==
    /\ node.k \notin {"Name", "Call", "Attribute"}
    /\ \A k \in 1..Len(ChildNodes(node)) : IsLiteral(ChildNodes(node)[k])

LiteralValue(r) ==
    IF r.ok THEN [st |-> "ok", val |-> r.val] ELSE [st |-> "TypeError", val |-> NoneV]

LiteralParsed(parsed) ==
    IF parsed.st = "syntax" THEN [st |-> "SyntaxError", val |-> NoneV]
    ELSE IF parsed.st = "beyond" THEN [st |-> "beyond", val |-> NoneV]
    ELSE IF ~IsLiteral(parsed.node) THEN [st |-> "ValueError", val |-> NoneV]
    ELSE LiteralValue(EvalNode(parsed.node, DictV(<<>>)))

LiteralEval(text) == LiteralParsed(AstParse(text))

\* for pair in line.split(','): setattr(myenv, key.strip(), literal_eval(val.strip()))
RECURSIVE ApplyOverrides(_, _)
RECURSIVE ApplyPair(_, _, _)
RECURSIVE SetAttr(_, _, _, _)
ApplyOverrides(pairs, cfg) ==
    IF pairs = <<>> THEN [st |-> "ok", cfg |-> cfg]
    ELSE ApplyPair(Tail(pairs), cfg, SplitOn(Head(pairs), ":"))

\* (key, val) = pair.split(':')
ApplyPair(rest, cfg, parts) ==
    IF Len(parts) # 2 THEN [st |-> "ValueError", cfg |-> cfg]
    ELSE SetAttr(rest, cfg, Strip(parts[1]), LiteralEval(Strip(parts[2])))

SetAttr(rest, cfg, key, lit) ==
    IF lit.st # "ok" THEN [st |-> lit.st, cfg |-> cfg]
    ELSE IF key = Key_block_start_string /\ IsString(lit.val)
    THEN ApplyOverrides(rest, [cfg EXCEPT !.bs = lit.val.s])
    \* trim_blocks only concerns block tags
    ELSE IF key = Key_trim_blocks /\ lit.val.t = "bool" THEN ApplyOverrides(rest, cfg)
    ELSE [st |-> "beyond", cfg |-> cfg]

\* line = data[len(JINJA2_OVERRIDE):eol], with eol = -1 when there is no newline
HeaderLine(data, eol) ==
    From(Upto(data, IF eol = 0 THEN Len(data) - 1 ELSE eol - 1), Len(JINJA2_OVERRIDE) + 1)

HeaderApplied(rest, applied) == [st |-> applied.st, data |-> rest, cfg |-> applied.cfg]

HeaderAt(data, cfg, eol) ==
    HeaderApplied(IF eol = 0 THEN data ELSE From(data, eol + 1),
                  ApplyOverrides(SplitOn(HeaderLine(data, eol), ","), cfg))

\* the header of a payload that starts with JINJA2_OVERRIDE: [st, data, cfg]
HeaderOverrides(data, cfg) == HeaderAt(data, cfg, FindFrom(data, <<NL>>, 1))

\* the number a bool or an int counts for in a sum
NumberOf(a) == IF a.t = "bool" THEN (IF a.b THEN 1 ELSE 0) ELSE a.n

\* a + b of an expression: [st, val]
AddValues(a, b) ==
    IF a.t = "undefined" \/ b.t = "undefined" THEN [st |-> "undefined", val |-> NoneV]
    ELSE IF a.t = "str" /\ b.t = "str" THEN [st |-> "ok", val |-> StrV(a.s \o b.s)]
    ELSE IF a.t \in {"int", "bool"} /\ b.t \in {"int", "bool"}
    THEN [st |-> "ok", val |-> IntV(NumberOf(a) + NumberOf(b))]
    ELSE IF a.t = "list" /\ b.t = "list" THEN [st |-> "ok", val |-> ListV(a.items \o b.items)]
    ELSE [st |-> "TemplatesError", val |-> NoneV]

\* val | filter | filter ...: [st, val, pos]
RECURSIVE ApplyFilters(_, _, _)
ApplyFilters(e, i, val) ==
    IF i <= Len(e) /\ IsOp(e[i], "|")
    THEN IF e[i + 1].v = FailingFilter
         THEN [st |-> "TemplatesFilterError", val |-> NoneV, pos |-> i + 2]
         ELSE IF val.t = "undefined" THEN [st |-> "undefined", val |-> NoneV, pos |-> i + 2]
         ELSE ApplyFilters(e, i + 2, IF val.t = "str" THEN val ELSE StrV(Text(val)))
    ELSE [st |-> "ok", val |-> val, pos |-> i]

\* the value of an expression: [st, val, cache, unsafe]
ExprRes(st, val, cache, unsafe) == [st |-> st, val |-> val, cache |-> cache, unsafe |-> unsafe]

\* the value jinja2 reads a constant name as
ConstantOf(name) ==
    IF name[1] \in {"t", "T"} THEN BoolV(TRUE)
    ELSE IF name[1] \in {"f", "F"} THEN BoolV(FALSE)
    ELSE NoneV

\* TemplatesContext.resolve sets the flag of the context
ResolvedUnsafe(tk, val) ==
    tk.k = "name" /\ tk.v \notin JinjaConstants /\ val # NoneV /\ IsUnsafe(val)

\* the rendered text with the flag of the context applied
Rendered(out, unsafe) == IF unsafe THEN UnsafeText(out) ELSE StrV(out)

\* [res], or res += '\n' * (data_newlines - res_newlines), a plain string
WithNewlines(res, data_newlines, res_newlines) ==
    IF data_newlines > res_newlines
    THEN StrV(res.s \o Repeat(NL, data_newlines - res_newlines))
    ELSE res

\* result.startswith("{") and not result.startswith("{{"), or
\* result.startswith("["), or result in ("True", "False")
LooksLikeData(result) ==
    \/ StartsWith(result, <<"{">>) /\ ~StartsWith(result, variable_start)
    \/ StartsWith(result, <<"[">>)
    \/ result \in {Chars_True, Chars_False}

\* the options the recursive calls of template() are made with
NestedOptions(o, fou) ==
    [DefaultOptions EXCEPT !.preserve_trailing_newlines = o.preserve_trailing_newlines,
                           !.fail_on_undefined = fou, !.overrides = o.overrides]

\* self._cached_result[sha1_hash] = result, when cache is set
TemplateStore(o, sha1_hash, result, cache) ==
    Res("ok", result, IF o.cache THEN (sha1_hash :> result) @@ cache ELSE cache)

RECURSIVE Template(_, _, _, _, _)
RECURSIVE TemplateGuarded(_, _)
RECURSIVE TemplateBody(_, _, _, _, _, _)
RECURSIVE TemplateString(_, _, _, _, _, _)
RECURSIVE TemplateCached(_, _, _, _, _, _, _)
RECURSIVE TemplateConvert(_, _, _, _, _)
RECURSIVE TemplateItems(_, _, _, _, _)
RECURSIVE TemplateItemsRest(_, _, _, _, _)
RECURSIVE TemplatePairs(_, _, _, _, _)
RECURSIVE TemplatePairsRest(_, _, _, _, _, _)
RECURSIVE DoTemplate(_, _, _, _, _, _, _, _)
RECURSIVE DoHeader(_, _, _, _, _, _, _, _)
RECURSIVE DoEscape(_, _, _, _, _, _, _, _)
RECURSIVE DoCompile(_, _, _, _, _, _, _, _)
RECURSIVE RenderNodes(_, _, _, _, _, _, _)
RECURSIVE RenderExpr(_, _, _, _, _, _, _)
RECURSIVE EvalExpr(_, _, _, _, _)
RECURSIVE EvalFiltered(_, _, _, _, _)
RECURSIVE EvalSum(_, _, _, _, _, _)
RECURSIVE Primary(_, _, _, _)
RECURSIVE Resolve(_, _, _, _)

\* J2Vars.__getitem__ under TemplatesContext.resolve: the value of a name is
\* template() of what the environment binds it to; a name the environment
\* does not bind is undefined
Resolve(key, env, cache, depth) ==
    IF ~HasKey(env, StrV(key)) THEN Res("ok", Undefined, cache)
    ELSE IF GetKey(env, StrV(key)).t = "dict" /\ key = <<"v", "a", "r", "s">>
    THEN Res("ok", GetKey(env, StrV(key)), cache)
    ELSE Template(GetKey(env, StrV(key)), DefaultOptions, env, cache, depth - 1)

\* the first operand of an expression: a string, an integer, a constant or a
\* name of the context
Primary(tk, env, cache, depth) ==
    IF tk.k = "string" THEN Res("ok", StrV(Unescape(SubSeq(tk.v, 2, Len(tk.v) - 1))), cache)
    ELSE IF tk.k = "integer" THEN Res("ok", IntV(NatOf(tk.v)), cache)
    ELSE IF tk.v \in JinjaConstants THEN Res("ok", ConstantOf(tk.v), cache)
    ELSE Resolve(tk.v, env, cache, depth)

\* the value of the expression from token i on: [st, val, cache, unsafe]
EvalExpr(e, i, env, cache, depth) ==
    EvalFiltered(e, i, env, depth, Primary(e[i], env, cache, depth))

\* the filters applied to the operand prim
EvalFiltered(e, i, env, depth, prim) ==
    IF prim.st # "ok" THEN ExprRes(prim.st, NoneV, prim.cache, FALSE)
    ELSE EvalSum(e, env, depth, prim.cache, ResolvedUnsafe(e[i], prim.val),
                 ApplyFilters(e, i + 1, prim.val))

\* the filtered operand f, alone or added to the rest of the expression
EvalAdd(a, unsafe, r) ==
    IF r.st # "ok" THEN ExprRes(r.st, r.val, r.cache, unsafe \/ r.unsafe)
    ELSE ExprRes(AddValues(a, r.val).st, AddValues(a, r.val).val, r.cache,
                 unsafe \/ r.unsafe)

EvalSum(e, env, depth, cache, unsafe, f) ==
    IF f.st # "ok" THEN ExprRes(f.st, NoneV, cache, unsafe)
    ELSE IF f.pos > Len(e) THEN ExprRes("ok", f.val, cache, unsafe)
    ELSE EvalAdd(f.val, unsafe, EvalExpr(e, f.pos + 1, env, cache, depth))

\* j2_concat(rf): [st, val, cache, unsafe], val the text rendered so far
RenderNodes(nodes, i, env, cache, depth, out, unsafe) ==
    IF i > Len(nodes) THEN ExprRes("ok", out, cache, unsafe)
    ELSE IF nodes[i].k = "data"
    THEN RenderNodes(nodes, i + 1, env, cache, depth, out \o nodes[i].v, unsafe)
    ELSE RenderExpr(nodes, i, env, depth, out, unsafe,
                    EvalExpr(nodes[i].v, 1, env, cache, depth))

\* the value r of the expression of node i
RenderExpr(nodes, i, env, depth, out, unsafe, r) ==
    IF r.st # "ok" THEN ExprRes(r.st, out, r.cache, unsafe)
    ELSE IF r.val.t = "undefined" THEN ExprRes("undefined", out, r.cache, unsafe)
    \* _finalize, then the text of the value
    ELSE RenderNodes(nodes, i + 1, env, r.cache, depth,
                     out \o (IF r.val = NoneV THEN <<>> ELSE Text(r.val)),
                     unsafe \/ r.unsafe)

\* the end of _do_template: the except clause, or the trailing newlines
DoRender(data_newlines, data, preserve_trailing_newlines, fail_on_undefined, rendered) ==
    IF rendered.st \in {"undefined", "TemplatesUndefinedVariable"}
    THEN IF Truthy(fail_on_undefined)
         THEN Res("TemplatesUndefinedVariable", NoneV, rendered.cache)
         ELSE Res("ok", StrV(data), rendered.cache)
    ELSE IF rendered.st # "ok" THEN Res(rendered.st, NoneV, rendered.cache)
    ELSE IF preserve_trailing_newlines
    THEN Res("ok", WithNewlines(Rendered(rendered.val, rendered.unsafe), data_newlines,
                                CountNewlinesFromEnd(rendered.val)),
             rendered.cache)
    ELSE Res("ok", Rendered(rendered.val, rendered.unsafe), rendered.cache)

DoTemplate(data, preserve_trailing_newlines, escape_backslashes, fail_on_undefined, overrides, env, cache, depth) ==
    DoHeader(CountNewlinesFromEnd(data), preserve_trailing_newlines, escape_backslashes,
             FailOnUndefined(fail_on_undefined), env, cache, depth,
             IF StartsWith(data, JINJA2_OVERRIDE)
             THEN HeaderOverrides(data, EnvOverlay(overrides))
             ELSE [st |-> "ok", data |-> data, cfg |-> EnvOverlay(overrides)])

\* after the header hdr: _escape_backslashes
DoHeader(data_newlines, preserve_trailing_newlines, escape_backslashes, fail_on_undefined, env, cache, depth, hdr) ==
    IF hdr.st # "ok" THEN Res(hdr.st, NoneV, cache)
    ELSE DoEscape(data_newlines, preserve_trailing_newlines, fail_on_undefined, hdr.cfg,
                  env, cache, depth,
                  IF escape_backslashes THEN EscapeBackslashes(hdr.data, hdr.cfg.bs)
                  ELSE [ok |-> TRUE, data |-> hdr.data])

\* from_string as if the error at the recursion limit did not name the
\* recursion: the except clause returns data
DoEscape_ReturnsData(data_newlines, preserve_trailing_newlines, fail_on_undefined, cfg, env, cache, depth, esc) ==
    IF ~esc.ok THEN Res("TemplateSyntaxError", NoneV, cache)
    ELSE IF depth = 0 THEN Res("ok", StrV(esc.data), cache)
    ELSE DoCompile(data_newlines, esc.data, preserve_trailing_newlines, fail_on_undefined,
                   env, cache, depth, Compile(esc.data, cfg))

\* after the escaping esc: myenv.from_string(data)
DoEscape(data_newlines, preserve_trailing_newlines, fail_on_undefined, cfg, env, cache, depth, esc) ==
    IF ~esc.ok THEN Res("TemplateSyntaxError", NoneV, cache)
    \* from_string at the recursion limit of the interpreter
    ELSE IF depth = 0 THEN Res("TemplatesError", NoneV, cache)
    ELSE DoCompile(data_newlines, esc.data, preserve_trailing_newlines, fail_on_undefined,
                   env, cache, depth, Compile(esc.data, cfg))

\* after the compilation to nodes: the render
DoCompile(data_newlines, data, preserve_trailing_newlines, fail_on_undefined, env, cache, depth, nodes) ==
    IF CompileStatus(nodes) = "syntax" THEN Res("TemplatesError", NoneV, cache)
    ELSE IF CompileStatus(nodes) = "beyond" THEN Res("beyond", NoneV, cache)
    ELSE DoRender(data_newlines, data, preserve_trailing_newlines, fail_on_undefined,
                  RenderNodes(nodes, 1, env, cache, depth, <<>>, FALSE))

\* the result of safe_eval, taken when it carries no error
TemplateEvaled(o, sha1_hash, done, eval_results) ==
    IF eval_results.err = "beyond" THEN Res("beyond", NoneV, done.cache)
    ELSE IF eval_results.err = "None"
    THEN TemplateStore(o, sha1_hash,
                       IF HasUnsafe(done.val) THEN WrapVar(eval_results.val)
                       ELSE eval_results.val,
                       done.cache)
    ELSE TemplateStore(o, sha1_hash, done.val, done.cache)

\* after _do_template: the conversion of a result that looks like data
TemplateConvert(variable, o, env, sha1_hash, done) ==
    IF done.st # "ok" THEN done
    ELSE IF o.convert_data /\ ~NoTypeMatches(variable.s) /\ LooksLikeData(done.val.s)
    THEN TemplateEvaled(o, sha1_hash, done, SafeEval(done.val, env, TRUE))
    ELSE TemplateStore(o, sha1_hash, done.val, done.cache)

\* the cache look-up under sha1_hash, else _do_template
TemplateCached(variable, o, fou, env, cache, depth, sha1_hash) ==
    IF o.cache /\ sha1_hash \in DOMAIN cache THEN Res("ok", cache[sha1_hash], cache)
    ELSE TemplateConvert(variable, o, env, sha1_hash,
                         DoTemplate(variable.s, o.preserve_trailing_newlines,
                                    o.escape_backslashes, fou, o.overrides, env, cache,
                                    depth))

\* if only_one: ... return resolved_val, or DEFAULT_NULL_REPRESENTATION
Shortcut(variable, env) ==
    IF SingleVarMatches(variable.s) /\ HasKey(env, StrV(SingleVarName(variable.s)))
    THEN IF IsNonTemplated(GetKey(env, StrV(SingleVarName(variable.s))))
         THEN [taken |-> TRUE, val |-> GetKey(env, StrV(SingleVarName(variable.s)))]
         ELSE IF GetKey(env, StrV(SingleVarName(variable.s))) = NoneV
         THEN [taken |-> TRUE, val |-> DEFAULT_NULL_REPRESENTATION]
         ELSE [taken |-> FALSE, val |-> NoneV]
    ELSE [taken |-> FALSE, val |-> NoneV]

\* the string branch of template(), after convert_bare
TemplateString(variable, o, fou, env, cache, depth) ==
    IF ~ContainsVars(variable.s) THEN Res("ok", variable, cache)
    ELSE IF Shortcut(variable, env).taken THEN Res("ok", Shortcut(variable, env).val, cache)
    ELSE TemplateCached(variable, o, fou, env, cache, depth,
                        CacheKey(variable, o.preserve_trailing_newlines,
                                 o.escape_backslashes, fou, o.overrides))

\* [self.template(v, ...) for v in variable]: val is the sequence of results
TemplateItemsJoin(v, rest) ==
    IF rest.st # "ok" THEN rest ELSE Res("ok", <<v>> \o rest.val, rest.cache)

TemplateItems(items, o, env, cache, depth) ==
    IF items = <<>> THEN Res("ok", <<>>, cache)
    ELSE TemplateItemsRest(Tail(items), o, env, depth,
                           Template(Head(items), o, env, cache, depth))

TemplateItemsRest(rest, o, env, depth, first) ==
    IF first.st # "ok" THEN first
    ELSE TemplateItemsJoin(first.val, TemplateItems(rest, o, env, first.cache, depth))

\* the loop over variable.keys(): val is the pairs of d
TemplatePairs(pairs, o, env, cache, depth) ==
    IF pairs = <<>> THEN Res("ok", <<>>, cache)
    ELSE TemplatePairsRest(Head(pairs)[1], Tail(pairs), o, env, depth,
                           IF Head(pairs)[1] \notin o.static_vars
                           THEN Template(Head(pairs)[2],
                                         NestedOptions(o, o.fail_on_undefined), env, cache,
                                         depth)
                           ELSE Res("ok", Head(pairs)[2], cache))

TemplatePairsRest(k, rest, o, env, depth, first) ==
    IF first.st # "ok" THEN first
    ELSE TemplateItemsJoin(<<k, first.val>>, TemplatePairs(rest, o, env, first.cache, depth))

AsList(r) == IF r.st = "ok" THEN Res("ok", ListV(r.val), r.cache) ELSE r
AsDict(r) == IF r.st = "ok" THEN Res("ok", DictV(r.val), r.cache) ELSE r

\* the try block of template(): the branch of the type of variable
TemplateBody(variable, o, fou, env, cache, depth) ==
    IF IsString(variable) THEN TemplateString(variable, o, fou, env, cache, depth)
    ELSE IF variable.t \in {"list", "tuple"}
    THEN AsList(TemplateItems(variable.items, NestedOptions(o, fou), env, cache, depth))
    ELSE IF variable.t = "dict"
    THEN AsDict(TemplatePairs(variable.items, [o EXCEPT !.fail_on_undefined = fou], env,
                              cache, depth))
    ELSE Res("ok", variable, cache)

\* except TemplatesFilterError: self._fail_on_filter_errors is read here and
\* nowhere assigned
TemplateGuarded(variable, body) ==
    IF body.st # "TemplatesFilterError" THEN body
    ELSE IF fail_on_filter_errors = "unset" THEN Res("AttributeError", NoneV, body.cache)
    ELSE IF fail_on_filter_errors = "true" THEN body
    ELSE Res("ok", variable, body.cache)

\* variable after convert_bare
ConvertBare(variable, o, env) ==
    IF o.convert_bare THEN ConvertBareVariable(variable, env) ELSE variable

\* Templar.template
Template(variable, o, env, cache, depth) ==
    IF HasUnsafe(variable)
    THEN IF IsString(variable) THEN Res("ok", CleanData(variable), cache)
         ELSE Res("ok", CleanData(variable.items[1]), cache)
    ELSE TemplateGuarded(ConvertBare(variable, o, env),
                         TemplateBody(ConvertBare(variable, o, env), o,
                                      FailOnUndefined(o.fail_on_undefined), env, cache,
                                      depth))

-----------------------------------------------------------------------------
(* The Templar as a state machine *)

Chars_foo_bam == <<"f", "=", "b", "a", "m">>
Chars_bar == <<"b", "a", "r">>
Chars_bam == <<"b", "a", "m">>

\* "{{" + name + "}}"
Ref(name) == variable_start \o name \o variable_end

\* the variables of src/test/test_templar.py under one-letter names:
\* f = foo, m = bam, n = num, t = var_true, l = var_list, d = var_dict,
\* z bound to None, s an unsafe text
Env1 ==
    DictV(<< <<StrV(<<"f">>), StrV(Chars_bar)>>,
             <<StrV(<<"m">>), StrV(Ref(<<"f">>))>>,
             <<StrV(<<"n">>), IntV(1)>>,
             <<StrV(<<"t">>), BoolV(TRUE)>>,
             <<StrV(<<"l">>), ListV(<<IntV(1)>>)>>,
             <<StrV(<<"d">>), DictV(<< <<StrV(<<"a">>), StrV(<<"b">>)>> >>)>>,
             <<StrV(<<"z">>), NoneV>>,
             <<StrV(<<"s">>), UnsafeText(<<"x">>)>>,
             <<StrV(<<"r">>), StrV(Ref(<<"r">>))>>,
             <<StrV(<<"w">>), ListV(<<UnsafeText(<<"x">>)>>)>> >>)

\* dict(foo="bam") of test_set_available_variables, and other bindings
Env2 ==
    DictV(<< <<StrV(<<"f">>), StrV(Chars_bam)>>,
             <<StrV(<<"n">>), IntV(2)>>,
             <<StrV(<<"l">>), ListV(<<IntV(2), IntV(1)>>)>> >>)

\* Templar(variables)
Init ==
    /\ available_variables \in {Env1, Env2}
    /\ cached_result = <<>>
    /\ fail_on_filter_errors = "unset"
    /\ call = [op |-> "__init__", variable |-> available_variables, o |-> DefaultOptions]
    /\ outcome = [st |-> "ok", val |-> NoneV]
    /\ stale_result = <<>>

\* what template(variable, **o) does to the Templar, given its result r
TemplateReturns(variable, o, r) ==
    /\ Cardinality(DOMAIN r.cache) <= MaxCache
    /\ cached_result' = r.cache
    /\ call' = [op |-> "template", variable |-> variable, o |-> o]
    /\ outcome' = [st |-> r.st, val |-> r.val]
    /\ UNCHANGED <<available_variables, fail_on_filter_errors, stale_result>>

\* templar.template(variable, **o)
TemplateCall(variable, o) ==
    TemplateReturns(variable, o,
                    Template(variable, o, available_variables, cached_result, MaxDepth))

\* templar.template(variable, **o) on a Templar whose cache is empty
FreshTemplateCall(variable, o) == cached_result = <<>> /\ TemplateCall(variable, o)

\* set_available_variables without the assert
SetAvailableVariables_NoAssert(variables) ==
    /\ call' = [op |-> "set_available_variables", variable |-> variables,
                o |-> DefaultOptions]
    /\ available_variables' = variables
    /\ cached_result' = <<>>
    /\ stale_result' = cached_result
    /\ outcome' = [st |-> "ok", val |-> NoneV]
    /\ UNCHANGED fail_on_filter_errors

\* set_available_variables without self._cached_result = {}
SetAvailableVariables_KeepsCache(variables) ==
    /\ call' = [op |-> "set_available_variables", variable |-> variables,
                o |-> DefaultOptions]
    /\ IF variables.t # "dict"
       THEN /\ outcome' = [st |-> "AssertionError", val |-> NoneV]
            /\ UNCHANGED <<available_variables, cached_result, stale_result>>
       ELSE /\ available_variables' = variables
            /\ outcome' = [st |-> "ok", val |-> NoneV]
            /\ stale_result' = cached_result
            /\ UNCHANGED cached_result
    /\ UNCHANGED fail_on_filter_errors

\* templar.set_available_variables(variables)
SetAvailableVariables(variables) ==
    /\ call' = [op |-> "set_available_variables", variable |-> variables,
                o |-> DefaultOptions]
    /\ IF variables.t # "dict"
       THEN /\ outcome' = [st |-> "AssertionError", val |-> NoneV]
            /\ UNCHANGED <<available_variables, cached_result, stale_result>>
       ELSE /\ available_variables' = variables
            /\ cached_result' = <<>>
            /\ stale_result' = cached_result
            /\ outcome' = [st |-> "ok", val |-> NoneV]
    /\ UNCHANGED fail_on_filter_errors

\* templar._clean_data(orig_data)
CleanDataCall(orig_data) ==
    /\ call' = [op |-> "_clean_data", variable |-> orig_data, o |-> DefaultOptions]
    /\ outcome' = [st |-> "ok", val |-> CleanData(orig_data)]
    /\ UNCHANGED <<available_variables, cached_result, fail_on_filter_errors,
                   stale_result>>

\* DefaultOptions with one keyword argument given
With(field, value) ==
    CASE field = "preserve_trailing_newlines" ->
            [DefaultOptions EXCEPT !.preserve_trailing_newlines = value]
      [] field = "escape_backslashes" -> [DefaultOptions EXCEPT !.escape_backslashes = value]
      [] field = "fail_on_undefined" -> [DefaultOptions EXCEPT !.fail_on_undefined = value]
      [] field = "overrides" -> [DefaultOptions EXCEPT !.overrides = value]
      [] field = "convert_data" -> [DefaultOptions EXCEPT !.convert_data = value]
      [] field = "convert_bare" -> [DefaultOptions EXCEPT !.convert_bare = value]
      [] field = "cache" -> [DefaultOptions EXCEPT !.cache = value]
      [] field = "static_vars" -> [DefaultOptions EXCEPT !.static_vars = value]

\* the values set_available_variables is called with
Settable == {Env1, Env2, StrV(Chars_foo_bam)}

-----------------------------------------------------------------------------
(* Spec: the cache and the environment.  Any sequence of template() and     *)
(* set_available_variables() calls, over payloads that are cached and one    *)
(* that takes the shortcut.                                                  *)

CachePayloads == {StrV(Ref(<<"f">>)), StrV(Ref(<<"m">>)), StrV(Ref(<<"l">>)),
                  StrV(Ref(<<"n">>))}
CacheOptions == {DefaultOptions, With("convert_data", FALSE),
                 With("preserve_trailing_newlines", FALSE)}

Next ==
    \/ \E variable \in CachePayloads, o \in CacheOptions : TemplateCall(variable, o)
    \/ \E variables \in Settable : SetAvailableVariables(variables)

Spec == Init /\ [][Next]_vars

-----------------------------------------------------------------------------
(* SpecShape: the shapes of a payload.  Each template() is made on a Templar *)
(* whose cache is empty.                                                     *)

\* {{'\t'}}{{u}}: a quoted backslash, then a name no environment binds
Chars_tab_u == <<"{", "{", "'", BS, "t", "'", "}", "}">> \o Ref(<<"u">>)
\* #jinja2:trim_blocks:False
Chars_header == JINJA2_OVERRIDE \o Key_trim_blocks \o <<":">> \o Chars_False
\* #jinja2:trim_blocks:False, a newline, {{u}}
Chars_header_u == Chars_header \o <<NL>> \o Ref(<<"u">>)

ShapePayloads ==
    { StrV(Ref(<<"n">>)), StrV(Ref(<<"n">>) \o <<NL>>), StrV(<<"x">> \o Ref(<<"n">>)),
      StrV(Ref(<<"n">>) \o <<"x">>), StrV(<<"{", "{", " ", "n", " ", "}", "}">>),
      StrV(Ref(<<"f">>)), StrV(Ref(<<"f">>) \o <<NL>>), StrV(Ref(<<"f">>) \o <<NL, NL>>),
      StrV(Ref(<<"m">>)), StrV(Ref(<<"l">>)), StrV(Ref(<<"l">>) \o <<NL>>),
      StrV(Ref(<<"d">>)), StrV(Ref(<<"t">>)), StrV(Ref(<<"z">>)), StrV(Ref(<<"s">>)),
      StrV(Ref(<<"u">>)), StrV(Ref(<<"u">>) \o <<NL>>), StrV(Chars_tab_u),
      StrV(Chars_header_u), StrV(Ref(<<"f", "|", "z", "z">>)),
      StrV(Ref(<<"n", "|", "s", "t", "r", "i", "n", "g">>)),
      StrV(<<"x", NL, NL>>), StrV(<<"{", "{", "f">>),
      UnsafeText(Ref(<<"f">>)), Proxy(StrV(Ref(<<"f">>))),
      ListV(<<StrV(Ref(<<"f">>)), IntV(1)>>),
      DictV(<< <<StrV(<<"k">>), StrV(Ref(<<"n">>) \o <<NL>>)>> >>),
      ListV(<<StrV(Ref(<<"l">>)), StrV(Ref(<<"f">>))>>),
      TupleV(<<StrV(Ref(<<"f">>)), ListV(<<StrV(Ref(<<"n">>) \o <<"x">>)>>)>>),
      \* {'k': '{{f}}', 'a': {'k': '{{f}}', 'b': '{{f}}'}, '{{f}}': ['{{f}}']}
      DictV(<< <<StrV(<<"k">>), StrV(Ref(<<"f">>))>>,
               <<StrV(<<"a">>), DictV(<< <<StrV(<<"k">>), StrV(Ref(<<"f">>))>>,
                                         <<StrV(<<"b">>), StrV(Ref(<<"f">>))>> >>)>>,
               <<StrV(Ref(<<"f">>)), ListV(<<StrV(Ref(<<"f">>))>>)>> >>),
      \* "\\{{foo}}" and "\\{{foo + '\\t' }}" of test_templar_escape_backslashes
      StrV(<<BS>> \o Ref(<<"f">>)),
      StrV(<<BS>> \o Ref(<<"f", " ", "+", " ", "'", BS, "t", "'", " ">>)),
      \* a backslash, and an escaped quote, in a literal: {{'\\'}} and {{'\''}}
      StrV(Ref(<<"'", BS, BS, "'">>)), StrV(Ref(<<"'", BS, "'", "'">>)),
      \* "{{recursive}}" of test_templar_errors, alone and in containers
      StrV(Ref(<<"r">>)), StrV(<<"x">> \o Ref(<<"r">>) \o <<NL>>),
      ListV(<<StrV(Ref(<<"r">>))>>),
      DictV(<< <<StrV(<<"a">>), StrV(Ref(<<"r">>))>> >>),
      \* references to tainted values: a text, before a newline and before
      \* another reference, and a list that holds a tainted text
      StrV(Ref(<<"s">>) \o <<NL>>), StrV(Ref(<<"s">>) \o Ref(<<"f">>)),
      StrV(Ref(<<"w">>)), StrV(Ref(<<"w">>) \o <<NL>>) }

ShapeOptions == {DefaultOptions, With("preserve_trailing_newlines", FALSE),
                 With("fail_on_undefined", BoolV(FALSE)), With("escape_backslashes", FALSE),
                 With("convert_data", FALSE), With("static_vars", {StrV(<<"k">>)})}

NextShape ==
    \E variable \in ShapePayloads, o \in ShapeOptions : FreshTemplateCall(variable, o)

SpecShape == Init /\ [][NextShape]_vars

-----------------------------------------------------------------------------
(* SpecClean: _clean_data on every string of at most MaxLen characters over  *)
(* the characters of the delimiters and one other, and on values it returns  *)
(* as they are.                                                              *)

CleanAlphabet == {"{", "}", "%", "a"}

CleanInputs ==
    {StrV(s) : s \in UNION {[1..n -> CleanAlphabet] : n \in 0..MaxLen}}
        \cup {UnsafeText(Ref(<<"a">>)), IntV(1)}

\* templar._clean_data(orig_data) as the first call on a new Templar
FirstCleanDataCall ==
    call.op = "__init__" /\ \E orig_data \in CleanInputs : CleanDataCall(orig_data)

NextClean == FirstCleanDataCall

SpecClean == Init /\ [][NextClean]_vars

-----------------------------------------------------------------------------
(* SpecEval: safe_eval on expressions of every outcome: literals, names of   *)
(* the locals, of the JSON constants and of builtins, calls, attribute       *)
(* accesses, texts that do not parse, and values that are not text.          *)

\* safe_eval(expr, locals, include_exceptions)
SafeEvalReturns(expr, locals, include_exceptions, r) ==
    /\ call' = [op |-> "safe_eval", variable |-> expr,
                o |-> [locals |-> locals, include_exceptions |-> include_exceptions]]
    /\ outcome' = [st |-> IF r.err = "beyond" THEN "beyond" ELSE "ok", val |-> r.val,
                   err |-> r.err, pair |-> r.pair, caught |-> r.caught,
                   evaluated |-> r.evaluated]
    /\ UNCHANGED <<available_variables, cached_result, fail_on_filter_errors,
                   stale_result>>

SafeEvalCall(expr, locals, include_exceptions) ==
    SafeEvalReturns(expr, locals, include_exceptions,
                    SafeEval(expr, locals, include_exceptions))

\* dict(abs=1): a name of builtins bound in the locals
LocalsAbs == DictV(<< <<StrV(<<"a", "b", "s">>), IntV(1)>> >>)

EvalLocals == {DictV(<<>>), Env2, LocalsAbs}

EvalInputs ==
    { IntV(1), ListV(<<IntV(1)>>),
      \* True
      StrV(<<"T", "r", "u", "e">>),
      \* False
      StrV(<<"F", "a", "l", "s", "e">>),
      \* 0
      StrV(<<"0">>),
      \* []
      StrV(<<"[", "]">>),
      \* {}
      StrV(<<"{", "}">>),
      \* {0}
      StrV(<<"{", "0", "}">>),
      \* __import__('os').system('x')
      StrV(<<"_", "_", "i", "m", "p", "o", "r", "t", "_", "_", "(", "'", "o", "s", "'", ")", ".", "s", "y", "s", "t", "e", "m", "(", "'", "x", "'", ")">>),
      \* [abs]
      StrV(<<"[", "a", "b", "s", "]">>),
      \* {'a': open}
      StrV(<<"{", "'", "a", "'", ":", " ", "o", "p", "e", "n", "}">>),
      \* abs
      StrV(<<"a", "b", "s">>),
      \* len(f)
      StrV(<<"l", "e", "n", "(", "f", ")">>),
      \* f(1)
      StrV(<<"f", "(", "1", ")">>),
      \* f.x
      StrV(<<"f", ".", "x">>),
      \* [1, f.x]
      StrV(<<"[", "1", ",", " ", "f", ".", "x", "]">>),
      \* u
      StrV(<<"u">>),
      \* true
      StrV(<<"t", "r", "u", "e">>),
      \* null
      StrV(<<"n", "u", "l", "l">>),
      \* [true, f]
      StrV(<<"[", "t", "r", "u", "e", ",", " ", "f", "]">>),
      \* f
      StrV(<<"f">>),
      \* {'a': 1
      StrV(<<"{", "'", "a", "'", ":", " ", "1">>),
      \* [1, 2
      StrV(<<"[", "1", ",", " ", "2">>),
      \* 'a
      StrV(<<"'", "a">>),
      \* {1: [2]}
      StrV(<<"{", "1", ":", " ", "[", "2", "]", "}">>),
      \* {[1]: 2}
      StrV(<<"{", "[", "1", "]", ":", " ", "2", "}">>),
      \* [f(abs)]
      StrV(<<"[", "f", "(", "a", "b", "s", ")", "]">>),
      \* abs(1)
      StrV(<<"a", "b", "s", "(", "1", ")">>),
      \* open('x')
      StrV(<<"o", "p", "e", "n", "(", "'", "x", "'", ")">>),
      \* {0: len}
      StrV(<<"{", "0", ":", " ", "l", "e", "n", "}">>),
      \* [u]
      StrV(<<"[", "u", "]">>),
      \* 1 2
      StrV(<<"1", " ", "2">>),
      \* the empty text
      StrV(<<>>),
      \* [n, true]
      StrV(<<"[", "n", ",", " ", "t", "r", "u", "e", "]">>),
      \* [l, {'a': n}]
      StrV(<<"[", "l", ",", " ", "{", "'", "a", "'", ":", " ", "n", "}", "]">>) }

\* safe_eval as the first call after the Templar is built
FirstSafeEvalCall ==
    /\ call.op = "__init__"
    /\ \E expr \in EvalInputs, locals \in EvalLocals, include_exceptions \in BOOLEAN :
          SafeEvalCall(expr, locals, include_exceptions)

NextEval == FirstSafeEvalCall

SpecEval == Init /\ [][NextEval]_vars

-----------------------------------------------------------------------------
(* SpecHeader: _do_template, called as template() calls it, on payloads with *)
(* and without a header of overrides.                                        *)

\* templar._do_template(data, **o)
DoTemplateReturns(data, o, r) ==
    /\ call' = [op |-> "_do_template", variable |-> StrV(data), o |-> o]
    /\ outcome' = [st |-> r.st, val |-> r.val]
    /\ cached_result' = r.cache
    /\ UNCHANGED <<available_variables, fail_on_filter_errors, stale_result>>

DoTemplateCall(data, o) ==
    DoTemplateReturns(data, o,
                      DoTemplate(data, o.preserve_trailing_newlines, o.escape_backslashes,
                                 o.fail_on_undefined, o.overrides, available_variables,
                                 cached_result, MaxDepth))

\* block_start_string:'<%'
Chars_block_override == Key_block_start_string \o <<":", "'", "<", "%", "'">>

\* headers of one pair and of two, before a reference, a text, a block tag
\* and an unbound name; a header alone with no newline after it, also
\* followed by a space; a header that is no pair; payloads with no header
HeaderPayloads ==
    { Chars_header \o <<NL>> \o Ref(<<"f">>),
      Chars_header \o <<NL>> \o Ref(<<"f">>) \o <<NL>>,
      Chars_header \o <<NL, "x">>,
      Chars_header \o <<",">> \o Key_trim_blocks \o <<":">> \o Chars_True
          \o <<NL>> \o Ref(<<"f">>),
      Chars_header \o <<",", " ">> \o Chars_block_override \o <<NL>> \o Ref(<<"n">>),
      JINJA2_OVERRIDE \o Chars_block_override \o <<NL, "{", "%">> \o Ref(<<"f">>),
      Chars_header_u,
      Chars_header, Chars_header \o <<" ">>,
      JINJA2_OVERRIDE \o Key_trim_blocks \o <<NL>> \o Ref(<<"f">>),
      Ref(<<"f">>), Ref(<<"s">>) \o <<NL>>, <<"x">> }

HeaderOptions ==
    {[DefaultOptions EXCEPT !.preserve_trailing_newlines = p, !.escape_backslashes = e,
                            !.fail_on_undefined = f] :
        p \in BOOLEAN, e \in BOOLEAN, f \in {NoneV, BoolV(TRUE), BoolV(FALSE)}}

\* templar._do_template(data, **o) as the first call on a new Templar
FirstDoTemplateCall ==
    call.op = "__init__" /\ \E data \in HeaderPayloads, o \in HeaderOptions : DoTemplateCall(data, o)

NextHeader == FirstDoTemplateCall

SpecHeader == Init /\ [][NextHeader]_vars

\* no call of the model leaves the grammars it covers
InsideModel == outcome.st # "beyond"

-----------------------------------------------------------------------------
(* Properties.  A formula speaks of the call the state records (call), of    *)
(* what it gave (outcome), and of what the same call gives on a new Templar  *)
(* over the same environment.                                                *)

\* the key template() looks the result of the call c up under
KeyOf(c) ==
    CacheKey(c.variable, c.o.preserve_trailing_newlines, c.o.escape_backslashes,
             FailOnUndefined(c.o.fail_on_undefined), c.o.overrides)

Returned(r) == [st |-> r.st, val |-> r.val]

\* template(variable, **o) on a Templar over env whose cache is empty
OnNewTemplar(variable, o, env) == Returned(Template(variable, o, env, <<>>, MaxDepth))

\* the results the call c can have under env, whatever convert_data is
ResultsUnder(c, env) ==
    {OnNewTemplar(c.variable, [c.o EXCEPT !.convert_data = convert_data], env) :
        convert_data \in BOOLEAN}

\* C1: a template() call never returns a result that was computed under an
\* environment an earlier set_available_variables() replaced: what it returns
\* is a result the call has under the environment of the moment (convert_data
\* aside, which the cache key leaves out), and set_available_variables()
\* leaves the cache empty.
C1_NoStaleResult ==
    /\ call.op = "template" => outcome \in ResultsUnder(call, available_variables)
    /\ (call.op = "set_available_variables" /\ outcome.st = "ok") => cached_result = <<>>

\* C1, its case: the payload of the call was cached before the last
\* replacement, with a result the new environment does not give, and the call
\* returned a result of the new environment.
C1_RenderedAgain ==
    /\ call.op = "template"
    /\ outcome.st = "ok"
    /\ KeyOf(call) \in DOMAIN stale_result
    /\ \A r \in ResultsUnder(call, available_variables) :
          r.val # stale_result[KeyOf(call)]

\* C2: calls that differ in an option that can change the result never share
\* a cache entry: every template() call returns exactly what it returns on a
\* Templar with an empty cache.
C2_KeyCoversOptions ==
    call.op = "template" =>
        outcome = OnNewTemplar(call.variable, call.o, available_variables)

\* what template("{{" + n + "}}") is to return for the value v bound to n
TypePreserved(v, got) ==
    IF v.t \in {"bool", "int", "dict", "list"} THEN got = [st |-> "ok", val |-> v]
    ELSE IF v = NoneV THEN got = [st |-> "ok", val |-> DEFAULT_NULL_REPRESENTATION]
    ELSE TRUE

\* C3: for every name n the environment binds to a boolean, an integer, a
\* dict or a list v, template("{{" + n + "}}") returns v itself, not its
\* string form, and for a name bound to None the null representation.
C3_TypePreserved ==
    \A k \in 1..Len(available_variables.items) :
        (/\ call.op = "template"
         /\ call.o = DefaultOptions
         /\ call.variable = StrV(Ref(available_variables.items[k][1].s)))
            => TypePreserved(available_variables.items[k][2], outcome)

\* the whole text is one variable reference: the delimiters around one name,
\* with optional whitespace inside
ExactReference(s) ==
    /\ Len(s) >= 5
    /\ StartsWith(s, variable_start)
    /\ EndsWith(s, variable_end)
    /\ \E a \in 3..(Len(s) - 2) : \E b \in a..(Len(s) - 2) :
          /\ \A k \in a..b : s[k] \in WordChars
          /\ \A k \in (3..(a - 1)) \cup ((b + 1)..(Len(s) - 2)) : s[k] \in SpaceChars

\* what the call c gives when its payload goes through _do_template
ThroughDoTemplate(c, env) ==
    Returned(TemplateGuarded(c.variable,
                 TemplateCached(c.variable, c.o, FailOnUndefined(c.o.fail_on_undefined),
                                env, <<>>, MaxDepth, KeyOf(c))))

\* C4: the shortcut is taken only for a payload that is exactly one variable
\* reference: a payload with any other character before or after the
\* reference gives what rendering it through _do_template gives.
C4_ShortcutOnlyExact ==
    (/\ call.op = "template"
     /\ IsString(call.variable)
     /\ ~HasUnsafe(call.variable)
     /\ ContainsVars(call.variable.s)
     /\ ~ExactReference(call.variable.s))
        => outcome = ThroughDoTemplate(call, available_variables)

\* the content a tainted value carries
Underlying(v) == IF IsString(v) THEN StrV(v.s) ELSE v.items[1]

\* C5: template() of a tainted value renders nothing: it returns the content
\* of the value with every matched delimiter pair rewritten by _clean_data,
\* still tainted.
C5_TaintedNeutralized ==
    (call.op = "template" /\ HasUnsafe(call.variable))
        => outcome = [st |-> "ok", val |-> WrapVar(CleanData(Underlying(call.variable)))]

\* a delimiter of _clean_regex starts at p
IsDelimiterAt(s, p) ==
    /\ p >= 1
    /\ p + 1 <= Len(s)
    /\ SubSeq(s, p, p + 1) \in {variable_start, block_start, block_end, variable_end}

\* the first of the consecutive positions up to p at which a delimiter starts
RunStart(s, p) ==
    CHOOSE q \in 1..p :
        /\ \A k \in q..p : IsDelimiterAt(s, k)
        /\ ~IsDelimiterAt(s, q - 1)

\* the delimiters a scan from left to right finds: a delimiter that overlaps
\* the one found before it is not one
Scanned(s) == {p \in 1..Len(s) : IsDelimiterAt(s, p) /\ (p - RunStart(s, p)) % 2 = 0}

IsOpening(s, p) == s[p] = "{"
KindAt(s, p) == IF SubSeq(s, p, p + 1) \in {variable_start, variable_end}
                THEN "variable" ELSE "block"

\* the delimiters of the kind of i strictly between i and j
Between(s, i, j) == {k \in Scanned(s) : i < k /\ k < j /\ KindAt(s, k) = KindAt(s, i)}

\* the closing delimiter j finds the opening i pending: they are of one kind
\* and the delimiters of that kind between them pair up among themselves
PairedWith(s, i, j) ==
    /\ i \in Scanned(s) /\ j \in Scanned(s) /\ i < j
    /\ IsOpening(s, i) /\ ~IsOpening(s, j)
    /\ KindAt(s, i) = KindAt(s, j)
    /\ \A m \in Between(s, i, j) \cup {j} :
          Cardinality({k \in Between(s, i, j) : k < m /\ IsOpening(s, k)})
              >= Cardinality({k \in Between(s, i, j) : k <= m /\ ~IsOpening(s, k)})
    /\ Cardinality({k \in Between(s, i, j) : IsOpening(s, k)})
          = Cardinality({k \in Between(s, i, j) : ~IsOpening(s, k)})

\* the delimiters that belong to a matched pair
Paired(s) ==
    {p \in Scanned(s) : \E q \in Scanned(s) : PairedWith(s, p, q) \/ PairedWith(s, q, p)}

\* the text with the matched pairs, and nothing else, rewritten
PairsRewritten(s) ==
    LET paired == Paired(s)
    IN  [p \in 1..Len(s) |->
            IF p \in paired
            THEN (IF IsOpening(s, p) THEN comment_start[1] ELSE comment_end[1])
            ELSE IF p - 1 \in paired
            THEN (IF IsOpening(s, p - 1) THEN comment_start[2] ELSE comment_end[2])
            ELSE s[p]]

\* C6: _clean_data on an untainted string rewrites exactly the matched
\* delimiter pairs: the opening becomes the comment-start token, the closing
\* the comment-end token, and every unmatched delimiter and every other
\* character stays as it is.
C6_MatchedPairsRewritten ==
    (call.op = "_clean_data" /\ IsString(call.variable) /\ ~HasUnsafe(call.variable))
        => /\ outcome.st = "ok"
           /\ IsString(outcome.val)
           /\ ~HasUnsafe(outcome.val)
           /\ outcome.val.s = PairsRewritten(call.variable.s)

\* C6, its case: _clean_data has rewritten a matched pair of a string and
\* left an unmatched delimiter of it in place.
C6_PairAndUnmatched ==
    /\ call.op = "_clean_data"
    /\ IsString(call.variable) /\ ~HasUnsafe(call.variable)
    /\ Paired(call.variable.s) # {}
    /\ Scanned(call.variable.s) \ Paired(call.variable.s) # {}
    /\ outcome.val # call.variable
    /\ \E p \in Scanned(call.variable.s) \ Paired(call.variable.s) :
          SubSeq(outcome.val.s, p, p + 1) = SubSeq(call.variable.s, p, p + 1)

\* the number of newline characters s ends in
TrailingNewlines(s) ==
    CHOOSE k \in 0..Len(s) :
        /\ \A i \in (Len(s) - k + 1)..Len(s) : s[i] = NL
        /\ k < Len(s) => s[Len(s) - k] # NL

\* the number of newline characters a returned value ends in: a value that is
\* not a text ends in none
EndsInNewlines(v) == IF IsString(v) THEN TrailingNewlines(v.s) ELSE 0

\* C7: with preserve_trailing_newlines=True, template() of a payload that
\* ends in k newline characters returns a text that ends in at least k
\* newline characters.
C7_TrailingNewlinesKept ==
    (/\ call.op = "template"
     /\ IsString(call.variable)
     /\ ~HasUnsafe(call.variable)
     /\ call.o.preserve_trailing_newlines
     /\ outcome.st = "ok")
        => EndsInNewlines(outcome.val) >= TrailingNewlines(call.variable.s)

\* rendering the payload of the call c hits an undefined variable
HitsUndefined(c, env) ==
    OnNewTemplar(c.variable, [c.o EXCEPT !.fail_on_undefined = BoolV(TRUE)], env).st
        = "TemplatesUndefinedVariable"

\* C8: when rendering a payload hits an undefined variable, template() raises
\* TemplatesUndefinedVariable if fail_on_undefined is true, and returns the
\* payload exactly as it was passed in if fail_on_undefined is false.
C8_UndefinedHandled ==
    (/\ call.op = "template"
     /\ IsString(call.variable)
     /\ ~HasUnsafe(call.variable)
     /\ HitsUndefined(call, available_variables))
        => IF Truthy(FailOnUndefined(call.o.fail_on_undefined))
           THEN outcome.st = "TemplatesUndefinedVariable"
           ELSE outcome = [st |-> "ok", val |-> call.variable]

\* a filter raises TemplatesFilterError while template() works on the call c
RaisesFilterError(c, env) ==
    TemplateBody(ConvertBare(c.variable, c.o, env), c.o,
                 FailOnUndefined(c.o.fail_on_undefined), env, <<>>, MaxDepth).st
        = "TemplatesFilterError"

\* C9: a TemplatesFilterError raised while template() resolves a value
\* reaches the caller as that error, unless the Templar is set to suppress
\* filter errors, and then template() returns the value it was given; no
\* other error comes out of this path.
C9_FilterErrorPropagates ==
    (/\ call.op = "template"
     /\ ~HasUnsafe(call.variable)
     /\ RaisesFilterError(call, available_variables))
        => IF fail_on_filter_errors = "false"
           THEN outcome = [st |-> "ok", val |-> call.variable]
           ELSE outcome.st = "TemplatesFilterError"

\* C10: set_available_variables() with a value that is not a mapping fails
\* and leaves the environment and the cache as they were; with a mapping it
\* replaces the environment and empties the cache.
C10_SetAvailableVariables ==
    [][call'.op = "set_available_variables" =>
          IF call'.variable.t = "dict"
          THEN /\ outcome'.st = "ok"
               /\ available_variables' = call'.variable
               /\ cached_result' = <<>>
          ELSE /\ outcome'.st # "ok"
               /\ available_variables' = available_variables
               /\ cached_result' = cached_result]_vars

\* C10, its case: set_available_variables() has refused a value that is not a
\* mapping while the cache held results, and they are still there.
C10_NonMappingRefused ==
    /\ call.op = "set_available_variables"
    /\ call.variable.t # "dict"
    /\ outcome.st = "AssertionError"
    /\ available_variables.t = "dict"
    /\ cached_result # <<>>

-----------------------------------------------------------------------------
(* safe_eval *)

\* the tree ast.parse gives for the text of the call, when it gives one
ParsedTree(c) == AstParse(c.variable.s).node
Parses(c) == c.op = "safe_eval" /\ IsString(c.variable) /\ AstParse(c.variable.s).st = "ok"

\* the kinds of the nodes reachable from node
RECURSIVE KindsOf(_)
KindsOf(node) ==
    {node.k} \cup UNION {KindsOf(ChildNodes(node)[k]) : k \in 1..Len(ChildNodes(node))}

\* C11: when a node reachable from the root of the parsed tree has a kind
\* outside SAFE_NODES, safe_eval evaluates nothing and returns the original
\* string.
C11_RejectedBeforeEval ==
    (Parses(call) /\ ~(KindsOf(ParsedTree(call)) \subseteq SAFE_NODES))
        => /\ outcome.val = call.variable
           /\ ~outcome.evaluated
           /\ outcome.caught = "Exception"

\* C11, its case: the tree holds an attribute access below its root, next to
\* nodes of the whitelist, and safe_eval returned the string without
\* evaluating.
C11_AttributeRejected ==
    /\ Parses(call)
    /\ "Attribute" \in KindsOf(ParsedTree(call))
    /\ ParsedTree(call).k \in SAFE_NODES
    /\ outcome.val = call.variable
    /\ ~outcome.evaluated

\* the names of the tree under node, each with whether it is inside a call
RECURSIVE NamesOf(_, _)
NamesOf(node, inside_call) ==
    (IF node.k = "Name" THEN {<<node.s, inside_call>>} ELSE {})
        \cup UNION {NamesOf(ChildNodes(node)[k], inside_call \/ node.k = "Call") :
                      k \in 1..Len(ChildNodes(node))}

\* name is bound in the JSON constants or in the locals of the call c
BoundFor(c, name) == HasKey(JSON_TYPES, StrV(name)) \/ HasKey(c.o.locals, StrV(name))

\* C12: a name of the expression that neither the JSON constants nor the
\* locals bind never resolves to a value, so the expression gives no result;
\* and a name of builtins inside a call that the whitelist does not hold gets
\* the expression rejected before it is evaluated.
C12_OnlyJsonAndLocals ==
    Parses(call) =>
        /\ (\E nm \in NamesOf(ParsedTree(call), FALSE) : ~BoundFor(call, nm[1]))
              => (outcome.val = call.variable /\ outcome.caught = "Exception")
        /\ (\E nm \in NamesOf(ParsedTree(call), FALSE) :
                nm[2] /\ nm[1] \in Builtins /\ nm[1] \notin CALL_WHITELIST)
              => (outcome.val = call.variable /\ ~outcome.evaluated)

\* C13: safe_eval on a string that fails (to parse, in the visitor, or in the
\* evaluation) returns the string, and with include_exceptions the error that
\* occurred with it, for a syntax error as for any other error; a value that
\* is not a string is returned as it is.
C13_FailureReturnsError ==
    call.op = "safe_eval" =>
        /\ outcome.st = "ok"
        /\ outcome.pair = call.o.include_exceptions
        /\ ~IsString(call.variable) => outcome.val = call.variable
        /\ (IsString(call.variable) /\ outcome.caught # "None")
              => /\ outcome.val = call.variable
                 /\ outcome.pair => outcome.err = outcome.caught

-----------------------------------------------------------------------------
(* Containers *)

\* what template() is to give for the value v when every mapping of the
\* descent leaves the keys of static_vars alone and every other value is
\* templated under the options inner
RECURSIVE Descent(_, _, _, _)
Descent(v, static_vars, inner, env) ==
    IF HasUnsafe(v) \/ IsString(v) THEN OnNewTemplar(v, inner, env).val
    ELSE IF v.t = "dict"
    THEN DictV([i \in 1..Len(v.items) |->
                  <<v.items[i][1],
                    IF v.items[i][1] \in static_vars THEN v.items[i][2]
                    ELSE Descent(v.items[i][2], static_vars, inner, env)>>])
    ELSE IF v.t \in {"list", "tuple"}
    THEN ListV([i \in 1..Len(v.items) |-> Descent(v.items[i], static_vars, inner, env)])
    ELSE v


\* C14: template() on a mapping returns a mapping of the same keys, the
\* value under a key of static_vars being the original value and the value
\* under any other key its templated value, in every mapping of the descent.
\* Values are templated under the options template() hands down.
C14_MappingFrame ==
    (call.op = "template" /\ call.variable.t = "dict" /\ outcome.st = "ok")
        => outcome.val = Descent(call.variable, call.o.static_vars,
                                 NestedOptions(call.o, call.o.fail_on_undefined),
                                 available_variables)

\* C15: template() on a list or tuple of n elements returns a sequence of n
\* elements, the i-th being template() of the i-th element under the options
\* of the outer call.
C15_ElementWise ==
    (call.op = "template" /\ call.variable.t \in {"list", "tuple"} /\ outcome.st = "ok")
        => /\ outcome.val.t = "list"
           /\ Len(outcome.val.items) = Len(call.variable.items)
           /\ \A i \in 1..Len(call.variable.items) :
                 [st |-> "ok", val |-> outcome.val.items[i]]
                    = OnNewTemplar(call.variable.items[i], call.o, available_variables)

-----------------------------------------------------------------------------
(* Backslashes *)

BackslashesIn(s) == Cardinality({i \in 1..Len(s) : s[i] = BS})

\* the backslashes the expression engine leaves of the literal lit, where a
\* backslash and the character after it are one escape sequence
RECURSIVE BackslashesLeft(_, _)
BackslashesLeft(lit, i) ==
    IF i > Len(lit) THEN 0
    ELSE IF lit[i] = BS
    THEN (IF i < Len(lit) /\ lit[i + 1] = BS THEN 1 ELSE 0) + BackslashesLeft(lit, i + 2)
    ELSE BackslashesLeft(lit, i + 1)

\* the backslashes of a payload, those inside the string literals of its
\* expressions counted after the engine has unescaped the literal
RECURSIVE BackslashesUnescaped(_, _)
BackslashesUnescaped(toks, in_var) ==
    IF toks = <<>> THEN 0
    ELSE IF Head(toks).k = "variable_begin" THEN BackslashesUnescaped(Tail(toks), TRUE)
    ELSE IF Head(toks).k = "variable_end" THEN BackslashesUnescaped(Tail(toks), FALSE)
    ELSE (IF in_var /\ Head(toks).k = "string"
          THEN BackslashesLeft(Head(toks).v, 1)
          ELSE BackslashesIn(Head(toks).v))
         + BackslashesUnescaped(Tail(toks), in_var)

\* the payload is a text with a backslash and an expression that template()
\* renders to a text when it is called with escape_backslashes=False
RendersWithBackslash(v, o, env) ==
    /\ IsString(v) /\ ~HasUnsafe(v)
    /\ Contains(v.s, <<BS>>) /\ Contains(v.s, variable_start)
    /\ LET plain == OnNewTemplar(v, [o EXCEPT !.escape_backslashes = FALSE], env)
       IN  plain.st = "ok" /\ IsString(plain.val)

\* C16: with escape_backslashes=True the rendered output holds as many
\* backslashes as the payload; with escape_backslashes=False the backslash
\* sequences inside the literals of the expressions are unescaped by the
\* expression engine and the backslashes outside are kept.
C16_BackslashesKept ==
    (call.op = "template" /\ RendersWithBackslash(call.variable, call.o, available_variables))
        => /\ outcome.st = "ok"
           /\ IsString(outcome.val)
           /\ BackslashesIn(outcome.val.s)
                 = IF call.o.escape_backslashes
                   THEN BackslashesIn(call.variable.s)
                   ELSE BackslashesUnescaped(Lex(call.variable.s, block_start), FALSE)

-----------------------------------------------------------------------------
(* Recursive definitions *)

\* the names env binds to a text that refers to the name itself
SelfReferring(env) ==
    {k \in {env.items[i][1] : i \in 1..Len(env.items)} :
        IsString(GetKey(env, k)) /\ ~HasUnsafe(GetKey(env, k))
            /\ Contains(GetKey(env, k).s, Ref(k.s))}

\* v is a text with a reference to such a name, or a container of one
RECURSIVE RefersToItself(_, _)
RefersToItself(v, env) ==
    IF HasUnsafe(v) THEN FALSE
    ELSE IF IsString(v) THEN \E k \in SelfReferring(env) : Contains(v.s, Ref(k.s))
    ELSE IF v.t = "dict"
    THEN \E i \in 1..Len(v.items) : RefersToItself(v.items[i][2], env)
    ELSE IF v.t \in {"list", "tuple"}
    THEN \E i \in 1..Len(v.items) : RefersToItself(v.items[i], env)
    ELSE FALSE

\* C17: template() of a reference to a variable whose value refers to the
\* variable itself ends by raising TemplatesError, whatever fail_on_undefined
\* is, and returns no value.
C17_RecursionRaises ==
    (call.op = "template" /\ RefersToItself(call.variable, available_variables))
        => outcome.st = "TemplatesError"

\* "{{r}}" where r is "{{r}}", with fail_on_undefined=False, has raised
C17_RecursiveReference ==
    /\ call.op = "template"
    /\ call.variable = StrV(Ref(<<"r">>))
    /\ call.o.fail_on_undefined = BoolV(FALSE)
    /\ RefersToItself(call.variable, available_variables)
    /\ outcome.st = "TemplatesError"

-----------------------------------------------------------------------------
(* Taint *)

\* the names the expressions of a lexed payload look up
RECURSIVE NamesLookedUp(_, _)
NamesLookedUp(toks, in_var) ==
    IF toks = <<>> THEN {}
    ELSE IF Head(toks).k = "variable_begin" THEN NamesLookedUp(Tail(toks), TRUE)
    ELSE IF Head(toks).k = "variable_end" THEN NamesLookedUp(Tail(toks), FALSE)
    ELSE (IF in_var /\ Head(toks).k = "name" /\ Head(toks).v \notin JinjaConstants
          THEN {Head(toks).v} ELSE {})
         \cup NamesLookedUp(Tail(toks), in_var)

\* the render of the payload v looks up a name env binds to a tainted text
\* or to a container that holds one
LooksUpTainted(v, env) ==
    /\ IsString(v) /\ ~HasUnsafe(v)
    /\ \E k \in NamesLookedUp(Lex(v.s, block_start), FALSE) :
          HasKey(env, StrV(k)) /\ IsUnsafe(GetKey(env, StrV(k)))

\* C18: when the render of a payload looks up a tainted value, the value
\* template() returns is tainted, also after the conversion by safe_eval.
C18_TaintKept ==
    (call.op = "template" /\ outcome.st = "ok"
       /\ LooksUpTainted(call.variable, available_variables))
        => IsUnsafe(outcome.val)

-----------------------------------------------------------------------------
(* Header overrides *)

\* the end of the first line of s: its newline, or the end of s
FirstLineEnd(s) == IF FindFrom(s, <<NL>>, 1) = 0 THEN Len(s) + 1 ELSE FindFrom(s, <<NL>>, 1)

\* the first line of s after the marker, and s after its first line
FirstLineOverrides(s) == SubSeq(s, Len(JINJA2_OVERRIDE) + 1, FirstLineEnd(s) - 1)
AfterFirstLine(s) == SubSeq(s, FirstLineEnd(s) + 1, Len(s))

\* v starts with the marker, and the whole of its first line after the
\* marker is a list of key:value pairs that leave the engine options of the
\* call as they are
HasPlainHeader(v, o) ==
    /\ IsString(v) /\ ~HasUnsafe(v)
    /\ StartsWith(v.s, JINJA2_OVERRIDE)
    /\ ApplyOverrides(SplitOn(FirstLineOverrides(v.s), ","), EnvOverlay(o.overrides))
          = [st |-> "ok", cfg |-> EnvOverlay(o.overrides)]

\* _do_template(data, **o) on a new Templar over env
DoTemplateOnNew(data, o, env) ==
    Returned(DoTemplate(data, o.preserve_trailing_newlines, o.escape_backslashes,
                        o.fail_on_undefined, o.overrides, env, <<>>, MaxDepth))

\* C19: _do_template of a payload that begins with "#jinja2:" reads the whole
\* first line after the marker as overrides and renders the payload without
\* its first line, so the header is not in the output; also for a payload
\* that is the header alone, with no newline.
C19_HeaderStripped ==
    (call.op = "_do_template" /\ HasPlainHeader(call.variable, call.o))
        => /\ outcome = DoTemplateOnNew(AfterFirstLine(call.variable.s), call.o,
                                        available_variables)
           /\ outcome.st = "ok" /\ IsString(outcome.val)
                 => ~Contains(outcome.val.s, JINJA2_OVERRIDE)

-----------------------------------------------------------------------------
(* Neutralization, twice *)

\* C20: _clean_data applied to what _clean_data returned for an untainted
\* string returns it unchanged: the output of one pass holds no matched
\* delimiter pair.
C20_CleanIdempotent ==
    (call.op = "_clean_data" /\ IsString(call.variable) /\ ~HasUnsafe(call.variable))
        => /\ CleanData(outcome.val) = outcome.val
           /\ Paired(outcome.val.s) = {}


=============================================================================
